---- MODULE Spec2Model ----
(***************************************************************************)
(* MEMO ontology store: the nodes, edges and provenance_logs tables of     *)
(* supabase/migrations/001_ontology_schema.sql and the handlers that write *)
(* to them (useNodes, useEdges, the extract-graph and ai-analyze edge      *)
(* functions) or query them (useSearch, the get_node_context and           *)
(* search_nodes_by_* SQL functions, the find-similar and graph-rag edge    *)
(* functions).                                                             *)
(* One action is one request of a handler to the database, or one answer   *)
(* of an external capability: a handler awaits each request, the database  *)
(* commits each on its own, and the requests of other calls land between   *)
(* them.  `calls` holds the calls in flight; `last` is what the last call  *)
(* to return returned; `refs` holds the refs the handlers of useSearch     *)
(* assign.  A handler of a single request is one action.                   *)
(* Weights are in hundredths (100 is 1.0); ids are positive integers and   *)
(* Null (0) is SQL NULL; timestamps are not modelled.                      *)
(***************************************************************************)
EXTENDS Integers, Sequences, FiniteSets, TLC

\* ---------------------------------------------------------------- bounds
MaxNodes == 2
MaxGovNodes == 1
MaxEdges == 2
MaxLogs == 4
MaxGovLogs == 3
MaxAILogs == 2
MaxClaims == 2
MaxRels == 1
MaxSuggestions == 1
MaxCtxNodes == 3
MaxCtxEdges == 2
MaxDepth == 3
MaxSearchNodes == 2
MaxMatchCount == 2
MaxExClaims == 3
MaxExRels == 2
MaxIndex == 5
MaxRagNodes == 2
MaxRagEdges == 1
MaxRagLogs == 1
MaxRagHits == 6
MaxBatch == 3
MaxWordLogs == 3
MaxCalls == 2
MaxConcLogs == 3

\* ------------------------------------------------------------- constants
Null == 0
Users == {"u1", "u2"}
GovernanceStatus == {"Active", "Experimental", "Deprecated"}
\* the members of the edge_type enum the manual inputs are drawn from
EdgeTypes == {"related_to", "supports"}
ProvenanceActions == {"create", "update", "delete", "merge", "split", "approve",
                      "deprecate", "extract_graph", "summarize", "link_suggest"}
AnalysisActions == {"summarize", "link_suggest", "argumentation_check"}
\* -0.01, 0.0, 1.0, 1.01
Weights == {-1, 0, 100, 101}
DefaultWeight == 100
\* an input field the caller left undefined
Undef == << >>
\* an optional field: undefined, or <<value>>
Opt(S) == {Undef} \cup {<<x>> : x \in S}

NodeIds == 1..MaxNodes
EdgeIds == 1..MaxEdges

VARIABLES nodes, edges, logs, nextNodeId, nextEdgeId, last, calls, refs
vars == <<nodes, edges, logs, nextNodeId, nextEdgeId, last, calls, refs>>

\* ------------------------------------------------------ pure definitions
\* content.split(/\s+/).filter(Boolean).length
RECURSIVE WordCountFrom(_, _, _)
WordCountFrom(s, i, inWord) ==
  IF i > Len(s) THEN 0
  ELSE IF s[i] = " " THEN WordCountFrom(s, i + 1, FALSE)
  ELSE (IF inWord THEN 0 ELSE 1) + WordCountFrom(s, i + 1, TRUE)

WordCount(s) == WordCountFrom(s, 1, FALSE)

\* value ?? fallback
Coalesce(v, d) == IF v = Undef THEN d ELSE v[1]

\* ---------------------------------------------------- the edges table DDL
\* a weight check without its upper bound
CheckWeightLowerOnly(row) == row.weight >= 0

\* CHECK (weight >= 0.0 AND weight <= 1.0)
CheckWeight(row) == row.weight >= 0 /\ row.weight <= 100

\* a table without the self-reference check
CheckNothing(row) == TRUE

\* CHECK (source_id != target_id)
CheckNoSelfLoop(row) == row.source_id # row.target_id

\* a unique constraint that is missing
UniqueNothing(tbl, id, row) == TRUE

\* UNIQUE(source_id, target_id, type), for the row with id `id`
UniqueTriple(tbl, id, row) ==
  \A e \in DOMAIN tbl :
    e # id => ~(tbl[e].source_id = row.source_id
                /\ tbl[e].target_id = row.target_id
                /\ tbl[e].type = row.type)

\* source_id / target_id REFERENCES nodes(id)
EdgeForeignKeys(nodesTbl, row) ==
  row.source_id \in DOMAIN nodesTbl /\ row.target_id \in DOMAIN nodesTbl

\* type edge_type NOT NULL
EdgeTypeValid(row) ==
  row.type \in {"related_to", "supports", "refutes", "defines", "caused_by",
                "derived_from", "example_of", "part_of"}

\* the error of INSERT / UPDATE of `row` as edge `id`, "none" when it is accepted
EdgeWriteError(tbl, nodesTbl, id, row) ==
  IF ~EdgeTypeValid(row) THEN "invalid_enum"
  ELSE IF ~CheckWeight(row) \/ ~CheckNoSelfLoop(row) THEN "check_violation"
  ELSE IF ~UniqueTriple(tbl, id, row) THEN "unique_violation"
  ELSE IF ~EdgeForeignKeys(nodesTbl, row) THEN "foreign_key_violation"
  ELSE "none"

\* ---------------------------------------------------- the nodes table DDL
NodeTypeValid(row) ==
  row.type \in {"Note", "Claim", "Evidence", "Source", "Person", "Definition"}

NodeWriteError(row) == IF ~NodeTypeValid(row) THEN "invalid_enum" ELSE "none"

\* a cascade on source_id only
CascadeSourceOnly(tbl, nid) == {e \in DOMAIN tbl : tbl[e].source_id # nid}

\* ON DELETE CASCADE of edges.source_id / edges.target_id: the edges that stay
CascadeEdges(tbl, nid) ==
  {e \in DOMAIN tbl : tbl[e].source_id # nid /\ tbl[e].target_id # nid}

\* ------------------------------------------- the provenance_logs table DDL
\* ON DELETE CASCADE in place of SET NULL: the entries of the target go
NullOutDropsEntries(l, nid, eids) ==
  SelectSeq(l, LAMBDA x : x.target_node_id # nid /\ x.target_edge_id \notin eids)

\* ON DELETE SET NULL of target_node_id and target_edge_id
NullOut(l, nid, eids) ==
  [i \in DOMAIN l |->
     [l[i] EXCEPT !.target_node_id = IF @ = nid THEN Null ELSE @,
                  !.target_edge_id = IF @ \in eids THEN Null ELSE @]]

\* a provenance_logs row; absent columns take their defaults
LogRow(user, action, actor, nid, eid, before, after, meta) ==
  [user_id |-> user, action |-> action, actor |-> actor,
   target_node_id |-> nid, target_edge_id |-> eid,
   before_state |-> before, after_state |-> after, metadata |-> meta]

\* action provenance_action NOT NULL; target_node_id REFERENCES nodes(id);
\* target_edge_id REFERENCES edges(id)
LogWriteError(nodesTbl, edgesTbl, row) ==
  IF row.action \notin ProvenanceActions THEN "invalid_enum"
  ELSE IF row.target_node_id # Null /\ row.target_node_id \notin DOMAIN nodesTbl
    THEN "foreign_key_violation"
  ELSE IF row.target_edge_id # Null /\ row.target_edge_id \notin DOMAIN edgesTbl
    THEN "foreign_key_violation"
  ELSE "none"

\* a log insert that is never made
InsertLogSkipped(l, nodesTbl, edgesTbl, role, row) == l

\* insert into provenance_logs by `role`, the service role or the session of a
\* window: the policy of the table refuses a row whose user_id is not
\* auth.uid().  The callers ignore the error of the insert.
InsertLog(l, nodesTbl, edgesTbl, role, row) ==
  IF /\ role \in {"service_role", row.user_id}
     /\ LogWriteError(nodesTbl, edgesTbl, row) = "none"
    THEN Append(l, row) ELSE l

\* a table without row level security: every stored row is visible
VisibleToAll(tbl, user, id) == id \in DOMAIN tbl

\* row level security: USING (auth.uid() = user_id)
Visible(tbl, user, id) == id \in DOMAIN tbl /\ tbl[id].user_id = user

\* what the last handler call to return returned: `ok` is a non-null / true
\* return value or a success response, `err` the error the handler stored or
\* answered with
Result(op, ok, err) == [op |-> op, ok |-> ok, err |-> err]

\* ------------------------------------------------------- calls in flight
\* A handler sends its requests one at a time and waits for each; the database
\* commits each request on its own, and the requests of other calls land
\* between them.  `calls` holds the calls that wait for a request of theirs:
\* the handler, the request it sends next and the locals it goes on with.
Calls == 1..MaxCalls

IdleCall == [op |-> "none", pc |-> "idle"]

\* the slot a new call takes
Free(c) == calls[c].pc = "idle" /\ \A d \in Calls : d < c => calls[d].pc # "idle"

\* call c is a call of handler op that sends request pc next
CallAt(c, op, pc) == calls[c].op = op /\ calls[c].pc = pc

Init ==
  /\ nodes = << >>
  /\ edges = << >>
  /\ logs = << >>
  /\ nextNodeId = 1
  /\ nextEdgeId = 1
  /\ last = Result("init", TRUE, "none")
  /\ calls = [c \in Calls |-> IdleCall]
  /\ refs = [results |-> << >>, context |-> << >>, error |-> "none"]

\* ------------------------------------------------------------ useNodes
CreateNodeInputs ==
  [title : {<<"t">>}, content : {<<"a">>}, type : {Undef},
   status : Opt(GovernanceStatus), creator : {Undef}]

\* the note a user saves without choosing a type or a status
PlainNodeInputs ==
  [title : {<<"t">>}, content : {<<"a">>}, type : {Undef}, status : {Undef},
   creator : {Undef}]

\* the row createNode inserts; the embedding column is left NULL
CreateNodeRow(user, input) ==
  [user_id |-> user, title |-> input.title, content |-> input.content,
   embedding |-> Undef,
   type |-> Coalesce(input.type, "Note"),
   status |-> Coalesce(input.status, "Active"),
   word_count |-> WordCount(input.content),
   creator |-> Coalesce(input.creator, "User"), method |-> "manual"]

\* createNode up to the answer of getUser, in a window whose session is that
\* of `user` or none ("anon"): without a user the call ends at once
createNode(c, user, input) ==
  /\ Free(c)
  /\ IF user = "anon"
       THEN /\ last' = Result("createNode", FALSE, "Not authenticated")
            /\ UNCHANGED calls
       ELSE /\ calls' = [calls EXCEPT ![c] =
                           [op |-> "createNode", pc |-> "insert", session |-> user,
                            user |-> user, input |-> input, id |-> Null,
                            before |-> Undef, after |-> Undef, action |-> "create",
                            actor |-> Coalesce(input.creator, "User")]]
            /\ UNCHANGED last
  /\ UNCHANGED <<nodes, edges, logs, nextNodeId, nextEdgeId>>
  /\ UNCHANGED refs

\* await supabase.from('nodes').insert({...}).select().single(), sent with the
\* session the window has by now: the policy of the table refuses a row of
\* another user, and a refused insert ends the call
createNodeInsert(c) ==
  /\ CallAt(c, "createNode", "insert")
  /\ LET row == CreateNodeRow(calls[c].user, calls[c].input)
         err == IF NodeTypeValid(row) /\ calls[c].session # row.user_id
                  THEN "42501" ELSE NodeWriteError(row)
     IN IF err = "none"
          THEN /\ nodes' = (nextNodeId :> row) @@ nodes
               /\ nextNodeId' = nextNodeId + 1
               /\ calls' = [calls EXCEPT ![c].pc = "getUser", ![c].id = nextNodeId,
                                         ![c].after = <<row>>]
               /\ UNCHANGED last
          ELSE /\ last' = Result("createNode", FALSE, err)
               /\ calls' = [calls EXCEPT ![c] = IdleCall]
               /\ UNCHANGED <<nodes, nextNodeId>>
  /\ UNCHANGED <<edges, logs, nextEdgeId>>
  /\ UNCHANGED refs

UpdateNodeInputs ==
  [id : NodeIds, title : {Undef}, content : {Undef},
   type : {Undef}, status : Opt(GovernanceStatus)]

\* the updateFields of updateNode applied to a row; a call that sets none of
\* content, type and status updates another column (title, tags, folder_id)
UpdateFields(row, input) ==
  [row EXCEPT
     !.title = Coalesce(input.title, @),
     !.content = Coalesce(input.content, @),
     !.word_count = IF input.content # Undef THEN WordCount(input.content[1]) ELSE @,
     !.type = Coalesce(input.type, @),
     !.status = Coalesce(input.status, @)]

\* what updateNode returns to its caller: `ok` is `result !== null`; `user` is
\* the session the call began with
UpdateResult(call, ok, err) ==
  IF call.op = "updateNode"
    THEN [op |-> "updateNode", ok |-> ok, err |-> err,
          args |-> [user |-> call.caller, id |-> call.id]]
    ELSE Result(call.op, ok, err)

\* the first request of updateNode, called by `op` (updateNode itself,
\* approveNode or deprecateNode) in a window with the session of `user`: the
\* select of the before state.  A select that finds no visible row answers
\* with data null, which the handler keeps.  updateNode never reads the user.
updateNode(c, op, user, input) ==
  /\ Free(c)
  /\ calls' = [calls EXCEPT ![c] =
                 [op |-> op, pc |-> "update", caller |-> user, session |-> user,
                  user |-> user, input |-> input, id |-> input.id,
                  before |-> IF Visible(nodes, user, input.id)
                               THEN <<nodes[input.id]>> ELSE Undef,
                  after |-> Undef, action |-> "update", actor |-> "User"]]
  /\ UNCHANGED <<nodes, edges, logs, nextNodeId, nextEdgeId, last>>
  /\ UNCHANGED refs

\* await supabase.from('nodes').update(updateFields)...select().single(): an
\* update that matches no row visible to the session is PGRST116, and the
\* call ends with null
updateNodeUpdate(c) ==
  /\ calls[c].op \in {"updateNode", "approveNode", "deprecateNode"}
  /\ calls[c].pc = "update"
  /\ LET input == calls[c].input
     IN IF Visible(nodes, calls[c].session, input.id)
          THEN LET after == UpdateFields(nodes[input.id], input)
               IN /\ nodes' = [nodes EXCEPT ![input.id] = after]
                  /\ calls' = [calls EXCEPT ![c].pc = "getUser", ![c].after = <<after>>]
                  /\ UNCHANGED last
          ELSE /\ last' = UpdateResult(calls[c], FALSE, "PGRST116")
               /\ calls' = [calls EXCEPT ![c] = IdleCall]
               /\ UNCHANGED nodes
  /\ UNCHANGED <<edges, logs, nextNodeId, nextEdgeId>>
  /\ UNCHANGED refs

\* what a node handler does when logProvenance has returned: approveNode and
\* deprecateNode go on from the update entry of updateNode to an entry of
\* their own ({action: 'approve' / 'deprecate', actor: 'User', target_node_id:
\* id}) and return !!result; createNode and updateNode return the row
AfterLogProvenance(c) ==
  IF calls[c].op \in {"approveNode", "deprecateNode"} /\ calls[c].action = "update"
    THEN /\ calls' = [calls EXCEPT
                        ![c].pc = "getUser",
                        ![c].action = IF calls[c].op = "approveNode"
                                        THEN "approve" ELSE "deprecate"]
         /\ UNCHANGED last
    ELSE /\ last' = UpdateResult(calls[c], TRUE, "none")
         /\ calls' = [calls EXCEPT ![c] = IdleCall]

\* logProvenance up to the answer of getUser: the user of the entry is the
\* user the window has by now, and without one nothing is inserted
logProvenance(c) ==
  /\ calls[c].op \in {"createNode", "updateNode", "approveNode", "deprecateNode"}
  /\ calls[c].pc = "getUser"
  /\ IF calls[c].session = "anon"
       THEN AfterLogProvenance(c)
       ELSE /\ calls' = [calls EXCEPT ![c].pc = "log", ![c].user = calls[c].session]
            /\ UNCHANGED last
  /\ UNCHANGED <<nodes, edges, logs, nextNodeId, nextEdgeId>>
  /\ UNCHANGED refs

\* await supabase.from('provenance_logs').insert({...}) of logProvenance: the
\* create entry holds the new row, the update entry the states before and
\* after; the result of the insert is not looked at
logProvenanceInsert(c) ==
  /\ calls[c].op \in {"createNode", "updateNode", "approveNode", "deprecateNode"}
  /\ calls[c].pc = "log"
  /\ LET call == calls[c]
         states == call.action \in {"create", "update"}
     IN logs' = InsertLog(logs, nodes, edges, call.session,
                   LogRow(call.user, call.action, call.actor, call.id, Null,
                          IF states THEN call.before ELSE << >>,
                          IF states THEN call.after ELSE << >>, << >>))
  /\ AfterLogProvenance(c)
  /\ UNCHANGED <<nodes, edges, nextNodeId, nextEdgeId>>
  /\ UNCHANGED refs

\* approveNode that leaves the status as it is
ApproveInputKeepsStatus(id) ==
  [id |-> id, title |-> Undef, content |-> Undef, type |-> Undef, status |-> Undef]

\* the input approveNode / deprecateNode hand to updateNode
ApproveInput(id) ==
  [id |-> id, title |-> Undef, content |-> Undef, type |-> Undef, status |-> <<"Active">>]

DeprecateInput(id) ==
  [id |-> id, title |-> Undef, content |-> Undef, type |-> Undef, status |-> <<"Deprecated">>]

\* approveNode / deprecateNode: await updateNode({id, status})
approveNode(c, user, id) == updateNode(c, "approveNode", user, ApproveInput(id))

deprecateNode(c, user, id) == updateNode(c, "deprecateNode", user, DeprecateInput(id))

\* useAuth.signOut in the window of a call in flight: the session ends
signOut(c) ==
  /\ "session" \in DOMAIN calls[c]
  /\ calls[c].session # "anon"
  /\ calls' = [calls EXCEPT ![c].session = "anon"]
  /\ UNCHANGED <<nodes, edges, logs, nextNodeId, nextEdgeId, last>>
  /\ UNCHANGED refs

\* useAuth.signInWithEmail in the window of a call in flight: the session of
\* `user` takes the place of the session the window had
signInWithEmail(c, user) ==
  /\ "session" \in DOMAIN calls[c]
  /\ calls[c].session # user
  /\ calls' = [calls EXCEPT ![c].session = user]
  /\ UNCHANGED <<nodes, edges, logs, nextNodeId, nextEdgeId, last>>
  /\ UNCHANGED refs

\* deleteNode, a single request: a delete that matches no visible row is not an
\* error
deleteNode(user, id) ==
  /\ IF Visible(nodes, user, id)
       THEN LET kept == CascadeEdges(edges, id)
            IN /\ nodes' = [n \in DOMAIN nodes \ {id} |-> nodes[n]]
               /\ edges' = [e \in kept |-> edges[e]]
               /\ logs' = NullOut(logs, id, DOMAIN edges \ kept)
       ELSE UNCHANGED <<nodes, edges, logs>>
  /\ last' = Result("deleteNode", TRUE, "none")
  /\ UNCHANGED <<nextNodeId, nextEdgeId, calls>>
  /\ UNCHANGED refs

\* ------------------------------------------------------------ useEdges
CreateEdgeInputs ==
  [source_id : NodeIds, target_id : NodeIds, type : Opt(EdgeTypes),
   weight : Opt(Weights), creator : {Undef}]

\* manual links of the type the analyses propose
SupportsEdgeInputs ==
  [source_id : NodeIds, target_id : NodeIds, type : {<<"supports">>},
   weight : Opt(Weights), creator : {Undef}]

\* the row createEdge inserts; status is left to the column default
CreateEdgeRow(user, input) ==
  [user_id |-> user, source_id |-> input.source_id, target_id |-> input.target_id,
   type |-> Coalesce(input.type, "related_to"),
   weight |-> Coalesce(input.weight, DefaultWeight),
   status |-> "Active",
   creator |-> Coalesce(input.creator, "User"), method |-> "manual"]

\* createEdge up to the answer of getUser, in a window whose session is that
\* of `user` or none ("anon"): without a user the call ends at once
createEdge(c, user, input) ==
  /\ Free(c)
  /\ IF user = "anon"
       THEN /\ last' = Result("createEdge", FALSE, "Not authenticated")
            /\ UNCHANGED calls
       ELSE /\ calls' = [calls EXCEPT ![c] =
                           [op |-> "createEdge", pc |-> "insert", session |-> user,
                            user |-> user, input |-> input, id |-> Null,
                            data |-> Undef]]
            /\ UNCHANGED last
  /\ UNCHANGED <<nodes, edges, logs, nextNodeId, nextEdgeId>>
  /\ UNCHANGED refs

\* await supabase.from('edges').insert({...}).select().single(), sent with the
\* session the window has by now: the policy of the table refuses a row of
\* another user, and a refused insert ends the call
createEdgeInsert(c) ==
  /\ CallAt(c, "createEdge", "insert")
  /\ LET row == CreateEdgeRow(calls[c].user, calls[c].input)
         err == IF EdgeTypeValid(row) /\ calls[c].session # row.user_id
                  THEN "42501" ELSE EdgeWriteError(edges, nodes, nextEdgeId, row)
     IN IF err = "none"
          THEN /\ edges' = (nextEdgeId :> row) @@ edges
               /\ nextEdgeId' = nextEdgeId + 1
               /\ calls' = [calls EXCEPT ![c].pc = "log", ![c].id = nextEdgeId,
                                         ![c].data = <<row>>]
               /\ UNCHANGED last
          ELSE /\ last' = Result("createEdge", FALSE, err)
               /\ calls' = [calls EXCEPT ![c] = IdleCall]
               /\ UNCHANGED <<edges, nextEdgeId>>
  /\ UNCHANGED <<nodes, logs, nextNodeId>>
  /\ UNCHANGED refs

\* await supabase.from('provenance_logs').insert({action: 'create', ...}) with
\* the user createEdge read at its start; return newEdge
createEdgeLog(c) ==
  /\ CallAt(c, "createEdge", "log")
  /\ logs' = InsertLog(logs, nodes, edges, calls[c].session,
                LogRow(calls[c].user, "create", calls[c].data[1].creator, Null,
                       calls[c].id, << >>, calls[c].data, << >>))
  /\ last' = Result("createEdge", TRUE, "none")
  /\ calls' = [calls EXCEPT ![c] = IdleCall]
  /\ UNCHANGED <<nodes, edges, nextNodeId, nextEdgeId>>
  /\ UNCHANGED refs

\* an update that also resets the weight to its default
UpdateEdgeRowResetsWeight(row, type) == [row EXCEPT !.type = type, !.weight = DefaultWeight]

\* the row updateEdgeType writes
UpdateEdgeRow(row, type) == [row EXCEPT !.type = type]

\* updateEdgeType, a single request: an update that matches no visible row is
\* not an error
updateEdgeType(user, id, type) ==
  LET row == UpdateEdgeRow(edges[id], type)
      err == IF Visible(edges, user, id)
               THEN EdgeWriteError(edges, nodes, id, row) ELSE "none"
  IN /\ edges' = IF Visible(edges, user, id) /\ err = "none"
                   THEN [edges EXCEPT ![id] = row] ELSE edges
     /\ last' = Result("updateEdgeType", err = "none", err)
     /\ UNCHANGED <<nodes, logs, nextNodeId, nextEdgeId, calls, refs>>

\* deleteEdge, a single request
deleteEdge(user, id) ==
  /\ IF Visible(edges, user, id)
       THEN /\ edges' = [e \in DOMAIN edges \ {id} |-> edges[e]]
            /\ logs' = NullOut(logs, Null, {id})
       ELSE UNCHANGED <<edges, logs>>
  /\ last' = Result("deleteEdge", TRUE, "none")
  /\ UNCHANGED <<nodes, nextNodeId, nextEdgeId, calls>>
  /\ UNCHANGED refs

\* ------------------------------------------- ai-analyze edge function
\* the suggestions of a link_suggest analysis
Suggestions ==
  [source_id : NodeIds, target_id : NodeIds, type : {"supports"}, weight : Weights]

SuggestionLists == UNION {[1..n -> Suggestions] : n \in 0..MaxSuggestions}

\* a suggestion row that leaves the status to the column default
SuggestionRowDefaultStatus(user, sg) ==
  [user_id |-> user, source_id |-> sg.source_id, target_id |-> sg.target_id,
   type |-> sg.type, weight |-> sg.weight, status |-> "Active",
   creator |-> "AI", method |-> "link_suggest"]

\* the edge row inserted for one suggestion
SuggestionRow(user, sg) ==
  [user_id |-> user, source_id |-> sg.source_id, target_id |-> sg.target_id,
   type |-> sg.type, weight |-> sg.weight, status |-> "Experimental",
   creator |-> "AI", method |-> "link_suggest"]

\* a loop that ends at the first insert error
LoopNextAborting(n, i, err) == IF err = "none" THEN i + 1 ELSE n + 1

\* the item a loop over n items goes on with after the insert of item i: an
\* insert error is ignored (ai-analyze) or logged and skipped (extract-graph)
LoopNext(n, i, err) == i + 1

\* what the last ai-analyze call was given and answered
AnalyzeResult(user, action, node0, sgs) ==
  [op |-> "aiAnalyze", ok |-> TRUE, err |-> "none",
   args |-> [user_id |-> user, action |-> action, node0 |-> node0,
             suggestions |-> sgs]]

\* the handler from the answer of the capability up to the answer of its log
\* insert; user_id and node_ids come from the request body.  The metadata
\* keeps the number of suggestions of the logged result.  An analysis that is
\* no link_suggest, or that suggests nothing, answers after the log insert.
aiAnalyze(c, user, action, node0, sgs) ==
  /\ Free(c)
  /\ logs' = InsertLog(logs, nodes, edges, "service_role",
                LogRow(user, action, "AI", node0, Null, << >>, << >>,
                       <<[suggestions |-> Len(sgs)]>>))
  /\ IF action = "link_suggest" /\ sgs # << >>
       THEN /\ calls' = [calls EXCEPT ![c] =
                           [op |-> "aiAnalyze", pc |-> "insert", user |-> user,
                            action |-> action, node0 |-> node0,
                            suggestions |-> sgs, i |-> 1]]
            /\ UNCHANGED last
       ELSE /\ last' = AnalyzeResult(user, action, node0, sgs)
            /\ UNCHANGED calls
  /\ UNCHANGED <<nodes, edges, nextNodeId, nextEdgeId>>
  /\ UNCHANGED refs

\* await supabase.from('edges').insert({...}) for the next suggestion; the
\* handler answers after the last one
aiAnalyzeInsert(c) ==
  /\ CallAt(c, "aiAnalyze", "insert")
  /\ LET call == calls[c]
         row == SuggestionRow(call.user, call.suggestions[call.i])
         err == EdgeWriteError(edges, nodes, nextEdgeId, row)
         i == LoopNext(Len(call.suggestions), call.i, err)
     IN /\ IF err = "none"
             THEN /\ edges' = (nextEdgeId :> row) @@ edges
                  /\ nextEdgeId' = nextEdgeId + 1
             ELSE UNCHANGED <<edges, nextEdgeId>>
        /\ IF i > Len(call.suggestions)
             THEN /\ last' = AnalyzeResult(call.user, call.action, call.node0,
                                           call.suggestions)
                  /\ calls' = [calls EXCEPT ![c] = IdleCall]
             ELSE /\ calls' = [calls EXCEPT ![c].i = i]
                  /\ UNCHANGED last
  /\ UNCHANGED <<nodes, logs, nextNodeId>>
  /\ UNCHANGED refs

\* ---------------------------------------- extract-graph edge function
Claims == [text : {<<"a", " ", "b">>}, type : {"Claim", "Warrant"}]
Entities == [name : {<<"n">>}, type : {"Person"}]
Relationships ==
  [source_index : 0..MaxClaims, target_index : 0..MaxClaims,
   type : {"supports"}, weight : Weights]

Extractions ==
  [claims : UNION {[1..n -> Claims] : n \in 0..MaxClaims},
   entities : UNION {[1..n -> Entities] : n \in 0..1},
   relationships : UNION {[1..n -> Relationships] : n \in 0..MaxRels}]

\* a claim row that leaves the status to the column default
ClaimRowDefaultStatus(user, claim) ==
  [user_id |-> user, title |-> claim.text, content |-> claim.text,
   embedding |-> Undef, type |-> claim.type,
   status |-> "Active", word_count |-> 0,
   creator |-> "AI", method |-> "extract_graph"]

\* the node row inserted for a claim; word_count is left to the column default
\* and the title, claim.text.substring(0, 100), is the whole of a short text
ClaimRow(user, claim) ==
  [user_id |-> user, title |-> claim.text, content |-> claim.text,
   embedding |-> Undef, type |-> claim.type,
   status |-> "Experimental", word_count |-> 0,
   creator |-> "AI", method |-> "extract_graph"]

\* the node row inserted for an entity: content is `Entity: ${entity.name}`
EntityRow(user, entity) ==
  [user_id |-> user, title |-> entity.name,
   content |-> <<"E", "n", "t", "i", "t", "y", ":", " ">> \o entity.name,
   embedding |-> Undef,
   type |-> entity.type, status |-> "Experimental", word_count |-> 0,
   creator |-> "AI", method |-> "extract_graph"]

\* createdNodeIds[index], Null when it is undefined
NodeIdAt(ids, index) == IF index + 1 \in DOMAIN ids THEN ids[index + 1] ELSE Null

\* the edge row inserted for a relationship
RelationshipRow(user, ids, rel) ==
  [user_id |-> user, source_id |-> NodeIdAt(ids, rel.source_index),
   target_id |-> NodeIdAt(ids, rel.target_index),
   type |-> rel.type, weight |-> rel.weight, status |-> "Experimental",
   creator |-> "AI", method |-> "extract_graph"]

\* if (!sourceId || !targetId || sourceId === targetId) continue
SkipRelationship(row) ==
  row.source_id = Null \/ row.target_id = Null \/ row.source_id = row.target_id

\* the request body; an empty content is falsy
ExtractRequests == [content : Opt({<<"a", " ", "b">>}), user_id : Users]

\* the answer of the capability as the handler reads it: no responseText, a
\* text that JSON.parse rejects, or an object in which a list may be missing
Parsed(ex) ==
  [text |-> "json", claims |-> <<ex.claims>>, entities |-> <<ex.entities>>,
   relationships |-> <<ex.relationships>>]

Unparsed == [text : {"missing", "not_json"}, claims : {Undef}, entities : {Undef},
             relationships : {Undef}]

\* the response body of a success
ExtractData(node_ids, edge_ids) ==
  [nodes_created |-> Len(node_ids), edges_created |-> Len(edge_ids),
   node_ids |-> node_ids, edge_ids |-> edge_ids]

\* what the last extract-graph call was given and answered
ExtractResult(req, output, err, data) ==
  [op |-> "extractGraph", ok |-> err = "none", err |-> err,
   args |-> [request |-> req, output |-> output], data |-> data]

\* the handler from a statement on to the request it sends next: a loop over
\* a list that is missing throws a TypeError, a loop at its end gives way to
\* the next one, and a relationship without two different created nodes is
\* passed over
RECURSIVE ExtractAdvance(_)
ExtractAdvance(call) ==
  LET list == IF call.pc = "claims" THEN call.output.claims
              ELSE IF call.pc = "entities" THEN call.output.entities
              ELSE call.output.relationships
  IN IF call.pc \notin {"claims", "entities", "relationships"} THEN call
     ELSE IF list = Undef THEN [call EXCEPT !.pc = "TypeError"]
     ELSE IF call.i > Len(list[1])
       THEN ExtractAdvance([call EXCEPT !.i = 1,
              !.pc = IF call.pc = "claims" THEN "entities"
                     ELSE IF call.pc = "entities" THEN "relationships" ELSE "log"])
     ELSE IF /\ call.pc = "relationships"
             /\ SkipRelationship(RelationshipRow(call.request.user_id, call.node_ids,
                                                 list[1][call.i]))
       THEN ExtractAdvance([call EXCEPT !.i = call.i + 1])
     ELSE call

\* the handler goes on after an await: to its next request, or to its catch
\* block, which answers with the error
ExtractGoesOn(c, call) ==
  LET next == ExtractAdvance(call)
  IN IF next.pc = "TypeError"
       THEN /\ last' = ExtractResult(call.request, call.output, "TypeError", Undef)
            /\ calls' = [calls EXCEPT ![c] = IdleCall]
       ELSE /\ calls' = [calls EXCEPT ![c] = next]
            /\ UNCHANGED last

\* the handler up to its fetch of the capability; user_id comes from the
\* request body, and a request without content is answered at once
extractGraph(c, req) ==
  /\ Free(c)
  /\ IF req.content = Undef
       THEN /\ last' = ExtractResult(req, Undef, "content and user_id required", Undef)
            /\ UNCHANGED calls
       ELSE /\ calls' = [calls EXCEPT ![c] =
                           [op |-> "extractGraph", pc |-> "fetch", request |-> req]]
            /\ UNCHANGED last
  /\ UNCHANGED <<nodes, edges, logs, nextNodeId, nextEdgeId>>
  /\ UNCHANGED refs

\* the capability answers and the handler reads the answer: without a
\* responseText it answers 500, and a text JSON.parse rejects throws
generateContentAnswers(c, output) ==
  /\ CallAt(c, "extractGraph", "fetch")
  /\ IF output.text # "json"
       THEN /\ last' = ExtractResult(calls[c].request, output,
                          IF output.text = "missing" THEN "AI extraction failed"
                          ELSE "SyntaxError", Undef)
            /\ calls' = [calls EXCEPT ![c] = IdleCall]
       ELSE ExtractGoesOn(c, [op |-> "extractGraph", pc |-> "claims", i |-> 1,
                              request |-> calls[c].request, output |-> output,
                              node_ids |-> << >>, edge_ids |-> << >>])
  /\ UNCHANGED <<nodes, edges, logs, nextNodeId, nextEdgeId>>
  /\ UNCHANGED refs

\* the insert of the node of a claim or of an entity: a created id is pushed,
\* a failed insert is skipped.  Writes made before a throw stay.
extractGraphNode(c) ==
  /\ calls[c].op = "extractGraph" /\ calls[c].pc \in {"claims", "entities"}
  /\ LET call == calls[c]
         list == IF call.pc = "claims" THEN call.output.claims[1]
                 ELSE call.output.entities[1]
         row == IF call.pc = "claims" THEN ClaimRow(call.request.user_id, list[call.i])
                ELSE EntityRow(call.request.user_id, list[call.i])
         err == NodeWriteError(row)
     IN /\ IF err = "none"
             THEN /\ nodes' = (nextNodeId :> row) @@ nodes
                  /\ nextNodeId' = nextNodeId + 1
             ELSE UNCHANGED <<nodes, nextNodeId>>
        /\ ExtractGoesOn(c, [call EXCEPT
                               !.i = LoopNext(Len(list), call.i, err),
                               !.node_ids = IF err = "none"
                                              THEN Append(@, nextNodeId) ELSE @])
  /\ UNCHANGED <<edges, logs, nextEdgeId>>
  /\ UNCHANGED refs

\* the insert of the edge of a relationship
extractGraphEdge(c) ==
  /\ CallAt(c, "extractGraph", "relationships")
  /\ LET call == calls[c]
         list == call.output.relationships[1]
         row == RelationshipRow(call.request.user_id, call.node_ids, list[call.i])
         err == EdgeWriteError(edges, nodes, nextEdgeId, row)
     IN /\ IF err = "none"
             THEN /\ edges' = (nextEdgeId :> row) @@ edges
                  /\ nextEdgeId' = nextEdgeId + 1
             ELSE UNCHANGED <<edges, nextEdgeId>>
        /\ ExtractGoesOn(c, [call EXCEPT
                               !.i = LoopNext(Len(list), call.i, err),
                               !.edge_ids = IF err = "none"
                                              THEN Append(@, nextEdgeId) ELSE @])
  /\ UNCHANGED <<nodes, logs, nextNodeId>>
  /\ UNCHANGED refs

\* the insert of the summary entry, and the answer
extractGraphLog(c) ==
  /\ CallAt(c, "extractGraph", "log")
  /\ LET call == calls[c]
     IN /\ logs' = InsertLog(logs, nodes, edges, "service_role",
                     LogRow(call.request.user_id, "extract_graph", "AI", Null, Null,
                            << >>, << >>,
                            <<[created_node_ids |-> call.node_ids,
                               created_edge_ids |-> call.edge_ids,
                               claims |-> Len(call.output.claims[1]),
                               entities |-> Len(call.output.entities[1]),
                               relationships |-> Len(call.output.relationships[1])]>>))
        /\ last' = ExtractResult(call.request, call.output, "none",
                      <<ExtractData(call.node_ids, call.edge_ids)>>)
        /\ calls' = [calls EXCEPT ![c] = IdleCall]
  /\ UNCHANGED <<nodes, edges, nextNodeId, nextEdgeId>>
  /\ UNCHANGED refs

\* ---------------------------------------------- get_node_context (SQL)
\* row level security: the rows of a table a role sees; the service role
\* bypasses the policies
Rls(tbl, role) ==
  [id \in {i \in DOMAIN tbl : role = "service_role" \/ tbl[i].user_id = role}
     |-> tbl[id]]

\* e.user_id = p_user_id AND e.status != 'Deprecated'
LiveEdge(row, p_user_id) == row.user_id = p_user_id /\ row.status # "Deprecated"

\* CASE WHEN e.source_id = from THEN e.target_id ELSE e.source_id END
OtherEnd(row, from) == IF row.source_id = from THEN row.target_id ELSE row.source_id

\* the direction of the edge read from its target
DirectionFlipped(row, from) == IF row.target_id = from THEN "outgoing" ELSE "incoming"

\* CASE WHEN e.source_id = from THEN 'outgoing' ELSE 'incoming' END
Direction(row, from) == IF row.source_id = from THEN "outgoing" ELSE "incoming"

\* a recursive case that may step back to the origin
AnyNode(nid, p_node_id) == TRUE

\* ... != p_node_id, the last condition of the recursive case
NotOrigin(nid, p_node_id) == nid # p_node_id

\* a row of graph_walk; UNION ALL keeps equal rows apart, here by the edges
\* they were reached over
WalkRow(path, e, row, from, d) ==
  [path |-> Append(path, e), nid |-> OtherEnd(row, from), etype |-> row.type,
   eweight |-> row.weight, dir |-> Direction(row, from), d |-> d]

\* the base case: the live edges of the owner at p_node_id
BaseCase(edgesTbl, p_node_id, p_user_id) ==
  {WalkRow(<< >>, e, edgesTbl[e], p_node_id, 1) :
     e \in {e \in DOMAIN edgesTbl :
              /\ (edgesTbl[e].source_id = p_node_id \/ edgesTbl[e].target_id = p_node_id)
              /\ LiveEdge(edgesTbl[e], p_user_id)}}

\* the recursive case, joined to the rows of the previous iteration
RecursiveCase(edgesTbl, working, p_node_id, p_user_id, p_depth) ==
  {WalkRow(x[1].path, x[2], edgesTbl[x[2]], x[1].nid, x[1].d + 1) :
     x \in {y \in working \X DOMAIN edgesTbl :
              /\ (edgesTbl[y[2]].source_id = y[1].nid \/ edgesTbl[y[2]].target_id = y[1].nid)
              /\ y[1].d < p_depth
              /\ LiveEdge(edgesTbl[y[2]], p_user_id)
              /\ NotOrigin(OtherEnd(edgesTbl[y[2]], y[1].nid), p_node_id)}}

\* WITH RECURSIVE graph_walk: iterate until an iteration adds no row
RECURSIVE GraphWalk(_, _, _, _, _)
GraphWalk(edgesTbl, working, p_node_id, p_user_id, p_depth) ==
  IF working = {} THEN {}
  ELSE working \cup
       GraphWalk(edgesTbl,
                 RecursiveCase(edgesTbl, working, p_node_id, p_user_id, p_depth),
                 p_node_id, p_user_id, p_depth)

\* a row of the function's result
ContextRow(nodesTbl, gw) ==
  [node_id |-> gw.nid, node_title |-> nodesTbl[gw.nid].title,
   node_type |-> nodesTbl[gw.nid].type, node_status |-> nodesTbl[gw.nid].status,
   edge_type |-> gw.etype, edge_weight |-> gw.eweight,
   direction |-> gw.dir, depth |-> gw.d]

\* a final select without its status filter
AnyStatus(row) == TRUE

\* JOIN nodes n ON n.id = gw.nid WHERE n.status != 'Deprecated'
LiveNode(row) == row.status # "Deprecated"

\* the result, in no particular order: each row with the number of times it
\* is returned
get_node_context(nodesTbl, edgesTbl, p_node_id, p_user_id, p_depth) ==
  LET walk == GraphWalk(edgesTbl, BaseCase(edgesTbl, p_node_id, p_user_id),
                        p_node_id, p_user_id, p_depth)
      joined == {gw \in walk : /\ gw.nid \in DOMAIN nodesTbl
                                /\ LiveNode(nodesTbl[gw.nid])}
  IN [r \in {ContextRow(nodesTbl, gw) : gw \in joined} |->
        Cardinality({gw \in joined : ContextRow(nodesTbl, gw) = r})]

\* --------------------------------------------- pg_trgm similarity (SQL)
\* the words of a text: its maximal runs of characters other than the blank
RECURSIVE WordsFrom(_, _, _)
WordsFrom(s, i, cur) ==
  IF i > Len(s) THEN (IF cur = << >> THEN {} ELSE {cur})
  ELSE IF s[i] = " "
    THEN (IF cur = << >> THEN {} ELSE {cur}) \cup WordsFrom(s, i + 1, << >>)
  ELSE WordsFrom(s, i + 1, Append(cur, s[i]))

\* the trigrams of a word, padded with two blanks in front and one behind
WordTrigrams(w) ==
  LET padded == <<" ", " ">> \o w \o <<" ">>
  IN {SubSeq(padded, i, i + 2) : i \in 1..(Len(w) + 1)}

Trigrams(s) == UNION {WordTrigrams(w) : w \in WordsFrom(s, 1, << >>)}

\* similarity(a, b) in thousandths: shared trigrams over all trigrams
Similarity(a, b) ==
  LET all == Trigrams(a) \cup Trigrams(b)
  IN IF all = {} THEN 0
     ELSE (Cardinality(Trigrams(a) \cap Trigrams(b)) * 1000) \div Cardinality(all)

\* a % b under the default pg_trgm.similarity_threshold of 0.3
TrigramMatch(a, b) == Similarity(a, b) >= 300

\* the smaller of the two similarities
Least(a, b) == IF a <= b THEN a ELSE b

\* GREATEST(a, b)
Greatest(a, b) == IF a >= b THEN a ELSE b

\* ------------------------------------------------ pgvector distance (SQL)
\* the embeddings of the model are vectors of length 5 in the plane
Dot(a, b) == a[1] * b[1] + a[2] * b[2]

\* a <=> b, the cosine distance, in hundredths: 1 - a.b / (|a| |b|)
CosineDistance(a, b) == 100 - 4 * Dot(a, b)

\* ORDER BY without its LIMIT: every member of the domain of key is listed
OrderNoLimit(key, match_count) ==
  LET S == DOMAIN key
      n == Cardinality(S)
  IN {g \in [1..n -> S] :
        /\ \A i, j \in 1..n : i # j => g[i] # g[j]
        /\ \A i, j \in 1..n : i < j => key[g[i]] <= key[g[j]]}

\* ORDER BY ... LIMIT: the sequences that list the first match_count members
\* of the domain of key by ascending key; members of equal key come in any
\* order
OrderLimit(key, match_count) ==
  LET S == DOMAIN key
      n == Cardinality(S)
      k == IF match_count < n THEN match_count ELSE n
  IN {SubSeq(f, 1, k) :
        f \in {g \in [1..n -> S] :
                 /\ \A i, j \in 1..n : i # j => g[i] # g[j]
                 /\ \A i, j \in 1..n : i < j => key[g[i]] <= key[g[j]]}}

\* a threshold that admits the similarity equal to it
AtLeast(similarity, match_threshold) == similarity >= match_threshold

\* 1 - (n.embedding <=> query_embedding) > match_threshold
Above(similarity, match_threshold) == similarity > match_threshold

\* a vector search without the owner filter
search_nodes_of_any_owner(nodesTbl, query_embedding, match_user_id, match_threshold, match_count) ==
  LET hits == {n \in DOMAIN nodesTbl :
                 /\ nodesTbl[n].status # "Deprecated"
                 /\ nodesTbl[n].embedding # Undef
                 /\ Above(100 - CosineDistance(nodesTbl[n].embedding, query_embedding),
                          match_threshold)}
      dist == [n \in hits |-> CosineDistance(nodesTbl[n].embedding, query_embedding)]
  IN {[i \in DOMAIN ord |->
         [id |-> ord[i], title |-> nodesTbl[ord[i]].title,
          content |-> nodesTbl[ord[i]].content, type |-> nodesTbl[ord[i]].type,
          status |-> nodesTbl[ord[i]].status,
          similarity |-> 100 - dist[ord[i]]]] :
        ord \in OrderLimit(dist, match_count)}

\* search_nodes_by_embedding: the results it may return.  A comparison with a
\* NULL embedding is not true.
search_nodes_by_embedding(nodesTbl, query_embedding, match_user_id, match_threshold, match_count) ==
  LET hits == {n \in DOMAIN nodesTbl :
                 /\ nodesTbl[n].user_id = match_user_id
                 /\ nodesTbl[n].status # "Deprecated"
                 /\ nodesTbl[n].embedding # Undef
                 /\ Above(100 - CosineDistance(nodesTbl[n].embedding, query_embedding),
                          match_threshold)}
      dist == [n \in hits |-> CosineDistance(nodesTbl[n].embedding, query_embedding)]
  IN {[i \in DOMAIN ord |->
         [id |-> ord[i], title |-> nodesTbl[ord[i]].title,
          content |-> nodesTbl[ord[i]].content, type |-> nodesTbl[ord[i]].type,
          status |-> nodesTbl[ord[i]].status,
          similarity |-> 100 - dist[ord[i]]]] :
        ord \in OrderLimit(dist, match_count)}

\* the rank column of search_nodes_by_text
TextRank(row, query_text) ==
  Greatest(Similarity(row.title, query_text), Similarity(row.content, query_text))

\* search_nodes_by_text: the results it may return
search_nodes_by_text(nodesTbl, query_text, match_user_id, match_count) ==
  LET hits == {n \in DOMAIN nodesTbl :
                 /\ nodesTbl[n].user_id = match_user_id
                 /\ nodesTbl[n].status # "Deprecated"
                 /\ (TrigramMatch(nodesTbl[n].title, query_text)
                       \/ TrigramMatch(nodesTbl[n].content, query_text))}
      desc == [n \in hits |-> 0 - TextRank(nodesTbl[n], query_text)]
  IN {[i \in DOMAIN ord |->
         [id |-> ord[i], title |-> nodesTbl[ord[i]].title,
          content |-> nodesTbl[ord[i]].content, type |-> nodesTbl[ord[i]].type,
          status |-> nodesTbl[ord[i]].status,
          rank |-> TextRank(nodesTbl[ord[i]], query_text)]] :
        ord \in OrderLimit(desc, match_count)}

\* ------------------------------------------------------------ useSearch
\* `refs` holds the refs of useSearch in the window: results.value,
\* context.value and error.value ("none" for null; loading is left out).  The
\* handlers return nothing but hybridSearch; what they found is in the refs.

\* searchByText up to its first await, in a window whose session is that of
\* `user` or none ("anon"): error.value = null, and the call waits for the
\* answer of supabase.auth.getUser()
searchByText(c, user, query) ==
  /\ Free(c)
  /\ refs' = [refs EXCEPT !.error = "none"]
  /\ calls' = [calls EXCEPT ![c] =
       [op |-> "searchByText", pc |-> "getUser", session |-> user, query |-> query]]
  /\ UNCHANGED <<nodes, edges, logs, nextNodeId, nextEdgeId, last>>

\* the calls hybridSearch starts once searchByText has returned:
\* results.value.slice(0, 5).map(async (result) => { await getNodeContext(...
\* Each getNodeContext sets error.value = null and waits for getUser; without
\* a result Promise.all resolves at once and hybridSearch returns [].
hybridSearchMap(c, call, r) ==
  LET top == SubSeq(r.results, 1, IF Len(r.results) < 5 THEN Len(r.results) ELSE 5)
  IN IF top = << >>
       THEN /\ refs' = r
            /\ last' = [op |-> "hybridSearch", ok |-> TRUE, err |-> "none",
                        args |-> [user |-> call.user, query |-> call.query],
                        data |-> << >>]
            /\ calls' = [calls EXCEPT ![c] = IdleCall]
       ELSE /\ refs' = [r EXCEPT !.error = "none"]
            /\ calls' = [calls EXCEPT ![c] =
                 [op |-> "hybridSearch", pc |-> "context", session |-> call.session,
                  user |-> call.user, query |-> call.query, top |-> top,
                  sub |-> [k \in DOMAIN top |-> [pc |-> "getUser", user |-> "anon"]],
                  enriched |-> [k \in DOMAIN top |-> Undef]]]
            /\ UNCHANGED last

\* getUser answers searchByText with the user of the session the window has
\* by now: without a user error.value = 'Not authenticated' and searchByText
\* returns, results.value as it was; hybridSearch goes on with the
\* results.value of an earlier search.  With a user the rpc is sent.
searchByTextGetUser(c) ==
  /\ calls[c].op \in {"searchByText", "hybridSearch"}
  /\ calls[c].pc = "getUser"
  /\ IF calls[c].session = "anon"
       THEN LET r == [refs EXCEPT !.error = "Not authenticated"]
            IN IF calls[c].op = "hybridSearch"
                 THEN hybridSearchMap(c, [session |-> "anon", user |-> "anon",
                                          query |-> calls[c].query], r)
                 ELSE /\ refs' = r
                      /\ calls' = [calls EXCEPT ![c] = IdleCall]
                      /\ UNCHANGED last
       ELSE /\ calls' = [calls EXCEPT ![c] =
                 [op |-> calls[c].op, pc |-> "rpc", session |-> calls[c].session,
                  user |-> calls[c].session, query |-> calls[c].query]]
            /\ UNCHANGED <<refs, last>>
  /\ UNCHANGED <<nodes, edges, logs, nextNodeId, nextEdgeId>>

\* await supabase.rpc('search_nodes_by_text', {query_text, match_user_id,
\* match_count: 20}) of searchByText, sent with the session the window has by
\* now: the rows go to results.value, an error to error.value and
\* results.value stays as it was.  searchByText returns; hybridSearch goes on.
searchByTextRpc(c, failed) ==
  /\ calls[c].op \in {"searchByText", "hybridSearch"}
  /\ calls[c].pc = "rpc"
  /\ \E data \in search_nodes_by_text(Rls(nodes, calls[c].session), calls[c].query,
                                       calls[c].user, 20) :
       LET r == IF failed THEN [refs EXCEPT !.error = "rpc error"]
                ELSE [refs EXCEPT !.results = data]
       IN IF calls[c].op = "hybridSearch"
            THEN hybridSearchMap(c, calls[c], r)
            ELSE /\ refs' = r
                 /\ calls' = [calls EXCEPT ![c] = IdleCall]
                 /\ UNCHANGED last
  /\ UNCHANGED <<nodes, edges, logs, nextNodeId, nextEdgeId>>

\* searchByEmbedding up to its first await: error.value = null, and the call
\* waits for the answer of getUser
searchByEmbedding(c, user, embedding, threshold) ==
  /\ Free(c)
  /\ refs' = [refs EXCEPT !.error = "none"]
  /\ calls' = [calls EXCEPT ![c] =
       [op |-> "searchByEmbedding", pc |-> "getUser", session |-> user,
        embedding |-> embedding, threshold |-> threshold]]
  /\ UNCHANGED <<nodes, edges, logs, nextNodeId, nextEdgeId, last>>

\* getUser answers searchByEmbedding: without a user error.value = 'Not
\* authenticated' and the call ends, results.value as it was
searchByEmbeddingGetUser(c) ==
  /\ CallAt(c, "searchByEmbedding", "getUser")
  /\ IF calls[c].session = "anon"
       THEN /\ refs' = [refs EXCEPT !.error = "Not authenticated"]
            /\ calls' = [calls EXCEPT ![c] = IdleCall]
       ELSE /\ calls' = [calls EXCEPT ![c] =
                 [op |-> "searchByEmbedding", pc |-> "rpc", session |-> calls[c].session,
                  user |-> calls[c].session, embedding |-> calls[c].embedding,
                  threshold |-> calls[c].threshold]]
            /\ UNCHANGED refs
  /\ UNCHANGED <<nodes, edges, logs, nextNodeId, nextEdgeId, last>>

\* await supabase.rpc('search_nodes_by_embedding', {query_embedding,
\* match_user_id, match_threshold, match_count: 10}) of searchByEmbedding
searchByEmbeddingRpc(c, failed) ==
  /\ CallAt(c, "searchByEmbedding", "rpc")
  /\ \E data \in search_nodes_by_embedding(Rls(nodes, calls[c].session),
                     calls[c].embedding, calls[c].user, calls[c].threshold, 10) :
       refs' = IF failed THEN [refs EXCEPT !.error = "rpc error"]
               ELSE [refs EXCEPT !.results = data]
  /\ calls' = [calls EXCEPT ![c] = IdleCall]
  /\ UNCHANGED <<nodes, edges, logs, nextNodeId, nextEdgeId, last>>

\* getNodeContext up to its first await: error.value = null, and the call
\* waits for the answer of getUser
getNodeContext(c, user, nodeId, depth) ==
  /\ Free(c)
  /\ refs' = [refs EXCEPT !.error = "none"]
  /\ calls' = [calls EXCEPT ![c] =
       [op |-> "getNodeContext", pc |-> "getUser", session |-> user,
        nodeId |-> nodeId, depth |-> depth]]
  /\ UNCHANGED <<nodes, edges, logs, nextNodeId, nextEdgeId, last>>

\* getUser answers getNodeContext: without a user error.value = 'Not
\* authenticated' and the call ends, context.value as it was
getNodeContextGetUser(c) ==
  /\ CallAt(c, "getNodeContext", "getUser")
  /\ IF calls[c].session = "anon"
       THEN /\ refs' = [refs EXCEPT !.error = "Not authenticated"]
            /\ calls' = [calls EXCEPT ![c] = IdleCall]
       ELSE /\ calls' = [calls EXCEPT ![c] =
                 [op |-> "getNodeContext", pc |-> "rpc", session |-> calls[c].session,
                  user |-> calls[c].session, nodeId |-> calls[c].nodeId,
                  depth |-> calls[c].depth]]
            /\ UNCHANGED refs
  /\ UNCHANGED <<nodes, edges, logs, nextNodeId, nextEdgeId, last>>

\* await supabase.rpc('get_node_context', {p_node_id, p_user_id, p_depth}),
\* sent with the session the window has by now and the user getUser answered
\* with: the rows go to context.value, an error to error.value and
\* context.value stays as it was
getNodeContextRpc(c, failed) ==
  /\ CallAt(c, "getNodeContext", "rpc")
  /\ refs' = IF failed THEN [refs EXCEPT !.error = "rpc error"]
             ELSE [refs EXCEPT !.context =
                     get_node_context(Rls(nodes, calls[c].session),
                                      Rls(edges, calls[c].session),
                                      calls[c].nodeId, calls[c].user, calls[c].depth)]
  /\ calls' = [calls EXCEPT ![c] = IdleCall]
  /\ UNCHANGED <<nodes, edges, logs, nextNodeId, nextEdgeId, last>>

\* hybridSearch up to the first await of the searchByText it calls:
\* error.value = null, and the call waits for the answer of getUser
hybridSearch(c, user, query) ==
  /\ Free(c)
  /\ refs' = [refs EXCEPT !.error = "none"]
  /\ calls' = [calls EXCEPT ![c] =
       [op |-> "hybridSearch", pc |-> "getUser", session |-> user, query |-> query]]
  /\ UNCHANGED <<nodes, edges, logs, nextNodeId, nextEdgeId, last>>

\* what a step of the getNodeContext call for result k leaves of the
\* hybridSearch call: the callback of result k goes on in the same turn as
\* its getNodeContext returns, return {...result, context: [...context.value]},
\* and with the last of them Promise.all resolves and hybridSearch returns
hybridSearchAttach(c, k, r) ==
  LET call == [calls[c] EXCEPT !.sub[k].pc = "done", !.enriched[k] = <<r.context>>]
  IN /\ refs' = r
     /\ IF \A j \in DOMAIN call.sub : call.sub[j].pc = "done"
          THEN /\ last' = [op |-> "hybridSearch", ok |-> TRUE, err |-> "none",
                           args |-> [user |-> call.user, query |-> call.query],
                           data |-> [j \in DOMAIN call.top |->
                                       [f \in DOMAIN call.top[j] \cup {"context"} |->
                                          IF f = "context" THEN call.enriched[j][1]
                                          ELSE call.top[j][f]]]]
               /\ calls' = [calls EXCEPT ![c] = IdleCall]
          ELSE /\ calls' = [calls EXCEPT ![c] = call]
               /\ UNCHANGED last

\* getUser answers the getNodeContext call for result k of a hybridSearch:
\* without a user the call returns with error.value = 'Not authenticated' and
\* context.value as it was
hybridSearchGetUser(c, k) ==
  /\ CallAt(c, "hybridSearch", "context")
  /\ k \in DOMAIN calls[c].sub /\ calls[c].sub[k].pc = "getUser"
  /\ IF calls[c].session = "anon"
       THEN hybridSearchAttach(c, k, [refs EXCEPT !.error = "Not authenticated"])
       ELSE /\ calls' = [calls EXCEPT ![c].sub[k] =
                           [pc |-> "rpc", user |-> calls[c].session]]
            /\ UNCHANGED <<refs, last>>
  /\ UNCHANGED <<nodes, edges, logs, nextNodeId, nextEdgeId>>

\* the rpc of the getNodeContext call for result k answers: with rows, which
\* go to context.value, or with an error, which leaves context.value as it is
hybridSearchContext(c, k, failed) ==
  /\ CallAt(c, "hybridSearch", "context")
  /\ k \in DOMAIN calls[c].sub /\ calls[c].sub[k].pc = "rpc"
  /\ hybridSearchAttach(c, k,
       IF failed THEN [refs EXCEPT !.error = "rpc error"]
       ELSE [refs EXCEPT !.context =
               get_node_context(Rls(nodes, calls[c].session), Rls(edges, calls[c].session),
                                calls[c].top[k].id, calls[c].sub[k].user, 1)])
  /\ UNCHANGED <<nodes, edges, logs, nextNodeId, nextEdgeId>>

\* supabase.rpc('search_nodes_by_text', ...) sent by a client that holds the
\* session of `caller`, with arguments of its choice
rpcSearchNodesByText(caller, query_text, match_user_id, match_count) ==
  /\ \E data \in search_nodes_by_text(Rls(nodes, caller), query_text,
                                       match_user_id, match_count) :
        last' = [op |-> "search_nodes_by_text", ok |-> TRUE, err |-> "none",
                 args |-> [caller |-> caller, query |-> query_text,
                           match_user_id |-> match_user_id,
                           match_count |-> match_count],
                 data |-> data]
  /\ UNCHANGED <<nodes, edges, logs, nextNodeId, nextEdgeId, calls>>
  /\ UNCHANGED refs

\* the find-similar edge function, from the embedding of its text on: the rpc
\* is sent with the service role key, user_id and top_k from the request body
\* and a threshold of 0.5; the handler does not look at who sent the request
findSimilar(caller, user_id, embedding, top_k) ==
  /\ \E data \in search_nodes_by_embedding(Rls(nodes, "service_role"), embedding,
                                            user_id, 50, top_k) :
        last' = [op |-> "findSimilar", ok |-> TRUE, err |-> "none",
                 args |-> [caller |-> caller, query |-> embedding,
                           match_user_id |-> user_id, match_threshold |-> 50,
                           match_count |-> top_k],
                 data |-> data]
  /\ UNCHANGED <<nodes, edges, logs, nextNodeId, nextEdgeId, calls>>
  /\ UNCHANGED refs

\* ------------------------------------------- graph-rag edge function
\* the request body; an empty question is falsy
RagRequests == [question : Opt({<<"a", "b">>}), user_id : Users]

\* what getEmbedding returns: a vector, or nothing when the answer of the
\* embedding capability has no vector in it (reading it throws a TypeError)
EmbeddingAnswers == Opt({<<5, 0>>})

\* what callLLM returns: the text of the answer, '' when the answer holds no
\* text, or nothing when the call throws
CompletionAnswers == Opt({"", "answer"})

\* the context kept of a traversal: node_id, node_title, edge_type and
\* direction of each row.  At depth 1 no two rows of a traversal agree on
\* node_id, edge_type and direction, since (source, target, type) is unique.
ContextEntries(ctx) ==
  {[node_id |-> r.node_id, node_title |-> r.node_title,
    edge_type |-> r.edge_type, direction |-> r.direction] : r \in DOMAIN ctx}

\* step 3 for one hit of the vector search: the source the hit makes, with
\* the context of a traversal of depth 1 by the service role
RagSource(node, user_id) ==
  [node |-> node,
   context |-> ContextEntries(
                 get_node_context(Rls(nodes, "service_role"), Rls(edges, "service_role"),
                                  node.id, user_id, 1))]

\* what the last graph-rag call was given, what it handed to the completion
\* capability (the sources its context blocks are written from) and what it
\* answered
RagResult(req, emb, llm, err, asked, data) ==
  [op |-> "graphRag", ok |-> err = "none", err |-> err,
   args |-> [request |-> req, embedding |-> emb, completion |-> llm],
   asked |-> asked, data |-> data]

\* the handler up to the fetch of getEmbedding; user_id comes from the request
\* body, and a request without a question is answered at once
graphRag(c, req) ==
  /\ Free(c)
  /\ IF req.question = Undef
       THEN /\ last' = RagResult(req, Undef, Undef, "question and user_id required",
                                 Undef, Undef)
            /\ UNCHANGED calls
       ELSE /\ calls' = [calls EXCEPT ![c] =
                           [op |-> "graphRag", pc |-> "embedding", request |-> req]]
            /\ UNCHANGED last
  /\ UNCHANGED <<nodes, edges, logs, nextNodeId, nextEdgeId>>
  /\ UNCHANGED refs

\* the embedding capability answers: an answer without a vector throws
embeddingAnswers(c, emb) ==
  /\ CallAt(c, "graphRag", "embedding")
  /\ IF emb = Undef
       THEN /\ last' = RagResult(calls[c].request, Undef, Undef, "TypeError", Undef, Undef)
            /\ calls' = [calls EXCEPT ![c] = IdleCall]
       ELSE /\ calls' = [calls EXCEPT ![c] =
                           [op |-> "graphRag", pc |-> "search",
                            request |-> calls[c].request, embedding |-> emb]]
            /\ UNCHANGED last
  /\ UNCHANGED <<nodes, edges, logs, nextNodeId, nextEdgeId>>
  /\ UNCHANGED refs

\* step 2: the vector search, with a threshold of 0.4 and a count of 5
graphRagSearch(c) ==
  /\ CallAt(c, "graphRag", "search")
  /\ \E topNodes \in search_nodes_by_embedding(Rls(nodes, "service_role"),
                       calls[c].embedding[1], calls[c].request.user_id, 40, 5) :
       calls' = [calls EXCEPT ![c] =
                   [op |-> "graphRag",
                    pc |-> IF topNodes = << >> THEN "completion" ELSE "context",
                    request |-> calls[c].request, embedding |-> calls[c].embedding,
                    topNodes |-> topNodes, sources |-> << >>]]
  /\ UNCHANGED <<nodes, edges, logs, nextNodeId, nextEdgeId, last>>
  /\ UNCHANGED refs

\* step 3: the traversal for the next hit; after the last one the handler
\* writes its prompt and calls the completion capability
graphRagContext(c) ==
  /\ CallAt(c, "graphRag", "context")
  /\ LET call == calls[c]
         i == Len(call.sources) + 1
     IN calls' = [calls EXCEPT
                    ![c].sources = Append(@, RagSource(call.topNodes[i],
                                                       call.request.user_id)),
                    ![c].pc = IF i = Len(call.topNodes) THEN "completion" ELSE "context"]
  /\ UNCHANGED <<nodes, edges, logs, nextNodeId, nextEdgeId, last>>
  /\ UNCHANGED refs

\* the completion capability answers: callLLM returns a text or throws
completionAnswers(c, llm) ==
  /\ CallAt(c, "graphRag", "completion")
  /\ IF llm = Undef
       THEN /\ last' = RagResult(calls[c].request, calls[c].embedding, Undef, "Error",
                                 <<calls[c].sources>>, Undef)
            /\ calls' = [calls EXCEPT ![c] = IdleCall]
       ELSE /\ calls' = [calls EXCEPT ![c] =
                           [op |-> "graphRag", pc |-> "log",
                            request |-> calls[c].request, embedding |-> calls[c].embedding,
                            topNodes |-> calls[c].topNodes, sources |-> calls[c].sources,
                            answer |-> llm]]
            /\ UNCHANGED last
  /\ UNCHANGED <<nodes, edges, logs, nextNodeId, nextEdgeId>>
  /\ UNCHANGED refs

\* step 6: the insert of the summarize entry, and the answer
graphRagLog(c) ==
  /\ CallAt(c, "graphRag", "log")
  /\ LET call == calls[c]
     IN /\ logs' = InsertLog(logs, nodes, edges, "service_role",
                     LogRow(call.request.user_id, "summarize", "AI", Null, Null,
                            << >>, << >>,
                            <<[source_node_ids |->
                                 [i \in DOMAIN call.topNodes |-> call.topNodes[i].id],
                               source_count |-> Len(call.topNodes)]>>))
        /\ last' = RagResult(call.request, call.embedding, call.answer, "none",
                             <<call.sources>>,
                             <<[answer |-> call.answer[1], sources |-> call.sources]>>)
        /\ calls' = [calls EXCEPT ![c] = IdleCall]
  /\ UNCHANGED <<nodes, edges, nextNodeId, nextEdgeId>>
  /\ UNCHANGED refs

\* ------------------------------------------------------------- the bounds
\* ids and log entries are unbounded in the program; a call begins only when
\* there is room for the rows it and the calls in flight have yet to insert
\* the rows of a table (nodes, edges or logs) that the calls 1..c in flight
\* have yet to insert: createNode and createEdge a row, an approveNode or
\* deprecateNode call two log entries, every other call but ai-analyze one; an extraction
\* inserts the nodes and edges of the items its loops have yet to reach, an
\* analysis the edges of its remaining suggestions
RECURSIVE ToCome(_, _)
ToCome(table, c) ==
  IF c = 0 THEN 0
  ELSE LET call == calls[c]
           len(list) == IF list = Undef THEN 0 ELSE Len(list[1])
           rows ==
             IF call.pc = "idle" THEN 0
             ELSE IF table = "logs"
               THEN IF call.op = "aiAnalyze" THEN 0
                    ELSE IF /\ call.op \in {"approveNode", "deprecateNode"}
                            /\ call.action = "update" THEN 2
                    ELSE 1
             ELSE IF call.pc = "insert" /\ call.op = "createNode"
               THEN IF table = "nodes" THEN 1 ELSE 0
             ELSE IF call.pc = "insert" /\ call.op = "createEdge"
               THEN IF table = "edges" THEN 1 ELSE 0
             ELSE IF call.op = "aiAnalyze"
               THEN IF table = "edges" THEN Len(call.suggestions) - call.i + 1 ELSE 0
             ELSE IF call.op # "extractGraph" THEN 0
             ELSE IF table = "nodes"
               THEN IF call.pc = "claims"
                      THEN len(call.output.claims) - call.i + 1
                           + len(call.output.entities)
                    ELSE IF call.pc = "entities"
                      THEN len(call.output.entities) - call.i + 1
                    ELSE 0
             ELSE IF call.pc \in {"claims", "entities"}
               THEN len(call.output.relationships)
             ELSE IF call.pc = "relationships"
               THEN len(call.output.relationships) - call.i + 1
             ELSE 0
       IN rows + ToCome(table, c - 1)

NodeRoom(k, max) ==
  nextNodeId + ToCome("nodes", MaxCalls) + k - 1 <= max

EdgeRoom(k) ==
  nextEdgeId + ToCome("edges", MaxCalls) + k - 1 <= MaxEdges

LogRoom(k, max) ==
  Len(logs) + ToCome("logs", MaxCalls) + k <= max

\* a specification of calls that do not overlap begins a call when none is in
\* flight; the handlers of a single request land between the requests of the
\* call in flight
NoneInFlight == \A c \in Calls : calls[c].pc = "idle"

\* the store under the handlers of useNodes and useEdges that create and
\* delete, on plain notes and links of the default weight or of weight 0.0;
\* the sessions last as long as the calls
Next ==
  \/ \E c \in Calls, u \in Users, input \in PlainNodeInputs :
        /\ NoneInFlight /\ NodeRoom(1, MaxNodes) /\ LogRoom(1, MaxLogs)
        /\ createNode(c, u, input)
  \/ \E c \in Calls : createNodeInsert(c)
  \/ \E c \in Calls : logProvenance(c)
  \/ \E c \in Calls : logProvenanceInsert(c)
  \/ \E u \in Users, id \in NodeIds : deleteNode(u, id)
  \/ \E c \in Calls, u \in Users,
        input \in {i \in CreateEdgeInputs : i.weight \in {Undef, <<0>>}} :
        /\ NoneInFlight /\ EdgeRoom(1) /\ LogRoom(1, MaxLogs)
        /\ createEdge(c, u, input)
  \/ \E c \in Calls : createEdgeInsert(c)
  \/ \E c \in Calls : createEdgeLog(c)
  \/ \E u \in Users, id \in EdgeIds, t \in EdgeTypes : updateEdgeType(u, id, t)
  \/ \E u \in Users, id \in EdgeIds : deleteEdge(u, id)

Spec == Init /\ [][Next]_vars

\* the governance lifecycle of nodes: the handlers of useNodes, one call
\* at a time, in windows whose session may end while the call runs
NextGov ==
  \/ \E c \in Calls, u \in Users, input \in CreateNodeInputs :
        /\ NoneInFlight /\ NodeRoom(1, MaxGovNodes) /\ LogRoom(1, MaxGovLogs)
        /\ createNode(c, u, input)
  \/ \E c \in Calls : createNodeInsert(c)
  \/ \E c \in Calls : logProvenance(c)
  \/ \E c \in Calls : logProvenanceInsert(c)
  \/ \E c \in Calls, u \in Users, input \in UpdateNodeInputs :
        /\ NoneInFlight /\ LogRoom(1, MaxGovLogs) /\ (input.id < nextNodeId \/ input.id > MaxGovNodes)
        /\ updateNode(c, "updateNode", u, input)
  \/ \E c \in Calls, u \in Users, id \in NodeIds :
        /\ NoneInFlight /\ LogRoom(2, MaxGovLogs) /\ (id < nextNodeId \/ id > MaxGovNodes)
        /\ approveNode(c, u, id)
  \/ \E c \in Calls, u \in Users, id \in NodeIds :
        /\ NoneInFlight /\ LogRoom(2, MaxGovLogs) /\ (id < nextNodeId \/ id > MaxGovNodes)
        /\ deprecateNode(c, u, id)
  \/ \E c \in Calls : updateNodeUpdate(c)
  \/ \E u \in Users, id \in NodeIds : deleteNode(u, id)
  \/ \E c \in Calls : signOut(c)

SpecGov == Init /\ [][NextGov]_vars

\* the three ways an edge is created: createEdge, link_suggest and
\* extract-graph, one call at a time but for createEdge, of which two run at
\* the same time: the second begins while the first waits for the answer of
\* its log insert (getUser reads the window, not the store, so that a call
\* that begins earlier stores nothing else).  A createEdge call that is
\* refused needs no room.  The sessions last as long as the calls; the
\* extractions are those of claims of the one type Claim.
NextAI ==
  \/ \E c \in Calls, u \in Users, input \in PlainNodeInputs :
        /\ NoneInFlight /\ NodeRoom(1, MaxNodes) /\ LogRoom(1, MaxAILogs)
        /\ createNode(c, u, input)
  \/ \E c \in Calls : createNodeInsert(c)
  \/ \E c \in Calls : logProvenance(c)
  \/ \E c \in Calls : logProvenanceInsert(c)
  \/ /\ \A d \in Calls : calls[d].op = "none" \/ CallAt(d, "createEdge", "log")
     /\ \E c \in Calls, u \in Users, input \in SupportsEdgeInputs :
           /\ \/ EdgeWriteError(edges, nodes, nextEdgeId, CreateEdgeRow(u, input)) # "none"
              \/ EdgeRoom(1) /\ LogRoom(1, MaxAILogs)
           /\ createEdge(c, u, input)
  \/ \E c \in Calls : createEdgeInsert(c)
  \/ \E c \in Calls : createEdgeLog(c)
  \/ /\ NoneInFlight /\ LogRoom(1, MaxAILogs)
     /\ \E c \in Calls, u \in Users, a \in AnalysisActions, n \in {Null, 1},
           sgs \in SuggestionLists :
           /\ EdgeRoom(Len(sgs))
           /\ a # "link_suggest" => sgs = << >>
           /\ aiAnalyze(c, u, a, n, sgs)
  \/ \E c \in Calls : aiAnalyzeInsert(c)
  \/ \E c \in Calls, u \in Users :
        /\ NoneInFlight /\ LogRoom(1, MaxAILogs)
        /\ extractGraph(c, [content |-> <<<<"a", " ", "b">>>>, user_id |-> u])
  \/ \E c \in Calls :
        /\ calls[c].pc = "fetch"
        /\ \E ex \in {e \in Extractions :
                         \A i \in DOMAIN e.claims : e.claims[i].type = "Claim"} :
              /\ NodeRoom(Len(ex.claims) + Len(ex.entities), MaxNodes)
              /\ EdgeRoom(Len(ex.relationships))
              /\ generateContentAnswers(c, Parsed(ex))
  \/ \E c \in Calls : extractGraphNode(c)
  \/ \E c \in Calls : extractGraphEdge(c)
  \/ \E c \in Calls : extractGraphLog(c)

SpecAI == Init /\ [][NextAI]_vars

\* createNode and createEdge with caller-supplied provenance: input.provenance
\* is spread over {creator: 'User', method: 'manual'}.  The calls are those of
\* a window of u1, or of a window without a session, whose session may end
\* and in which either user may sign in while the call runs.
AuthoredNodeInputs ==
  [title : {<<"t">>}, content : {<<"a">>}, type : {Undef},
   status : Opt({"Active", "Experimental"}), creator : Opt({"User", "AI"})]

AuthoredEdgeInputs ==
  [source_id : NodeIds, target_id : NodeIds, type : {Undef}, weight : {Undef},
   creator : Opt({"User", "AI"})]

NextAuthor ==
  \/ \E c \in Calls, u \in {"u1", "anon"}, input \in AuthoredNodeInputs :
        /\ NoneInFlight /\ NodeRoom(1, MaxNodes) /\ LogRoom(1, MaxLogs)
        /\ createNode(c, u, input)
  \/ \E c \in Calls : createNodeInsert(c)
  \/ \E c \in Calls : logProvenance(c)
  \/ \E c \in Calls : logProvenanceInsert(c)
  \/ \E c \in Calls, u \in {"u1", "anon"}, input \in AuthoredEdgeInputs :
        /\ NoneInFlight /\ EdgeRoom(1) /\ LogRoom(1, MaxLogs)
        /\ createEdge(c, u, input)
  \/ \E c \in Calls : createEdgeInsert(c)
  \/ \E c \in Calls : createEdgeLog(c)
  \/ \E c \in Calls : signOut(c)
  \/ \E c \in Calls, u \in Users : signInWithEmail(c, u)

SpecAuthor == Init /\ [][NextAuthor]_vars

\* ------------------------------------------- the answers of the capability
\* extractions of up to three claims whose relationships may name indices
\* beyond the claims, and answers that are not a complete extraction
ExRelationships ==
  [source_index : 0..MaxIndex, target_index : 0..MaxIndex,
   type : {"supports"}, weight : {90}]

Outputs ==
  Unparsed \cup
  [text : {"json"},
   claims : Opt(UNION {[1..n -> Claims] : n \in 0..MaxExClaims}),
   entities : Opt(UNION {[1..n -> Entities] : n \in 0..1}),
   relationships : Opt(UNION {[1..n -> ExRelationships] : n \in 0..MaxExRels})]

\* the store an extraction runs on: empty, or holding a note of u1
InitExtract ==
  /\ nodes \in {<< >>} \cup {<<CreateNodeRow("u1", input)>> : input \in PlainNodeInputs}
  /\ edges = << >>
  /\ logs = << >>
  /\ nextNodeId = Len(nodes) + 1
  /\ nextEdgeId = 1
  /\ last = Result("init", TRUE, "none")
  /\ calls = [c \in Calls |-> IdleCall]
  /\ refs = [results |-> << >>, context |-> << >>, error |-> "none"]

\* one invocation of extract-graph, request by request
NextExtract ==
  \/ /\ last.op = "init" /\ NoneInFlight
     /\ \E c \in Calls, req \in ExtractRequests : extractGraph(c, req)
  \/ \E c \in Calls :
        /\ calls[c].pc = "fetch"
        /\ \E output \in Outputs : generateContentAnswers(c, output)
  \/ \E c \in Calls : extractGraphNode(c)
  \/ \E c \in Calls : extractGraphEdge(c)
  \/ \E c \in Calls : extractGraphLog(c)

SpecExtract == InitExtract /\ [][NextExtract]_vars

\* ------------------------------------------- the stores the queries read
\* the edge tables the constraints of the edges table admit, one table for
\* each set of rows: edge ids follow the order of (source_id, target_id, type).
\* The rows are edge rows as createEdge stores them for either user; no
\* handler changes the status of an edge.
CtxEdgeTables(nodesTbl) ==
  LET CtxEdgeRows ==
        {CreateEdgeRow(u, input) :
           u \in Users,
           input \in [source_id : 1..MaxCtxNodes, target_id : 1..MaxCtxNodes,
                      type : Opt(EdgeTypes) \ {Undef}, weight : {Undef},
                      creator : {Undef}]}
      EdgeOrder(row) == (row.source_id * (MaxCtxNodes + 1) + row.target_id) * 2
                          + (IF row.type = "supports" THEN 1 ELSE 0)
  IN UNION {{t \in [1..k -> CtxEdgeRows] :
               /\ \A e \in 1..k : EdgeWriteError(t, nodesTbl, e, t[e]) = "none"
               /\ \A e \in 1..(k - 1) : EdgeOrder(t[e]) < EdgeOrder(t[e + 1])} :
            k \in 0..MaxCtxEdges}

\* the nodes are a Claim, an Evidence and a Note of one owner, each live or
\* Deprecated
InitCtx ==
  /\ LET CtxNodeRows(id) ==
           {CreateNodeRow("u1", input) :
              input \in [title : {<<"t">>}, content : {<<"a">>},
                         type : {<<IF id = 1 THEN "Claim"
                                   ELSE IF id = 2 THEN "Evidence" ELSE "Note">>},
                         status : {<<"Active">>, <<"Deprecated">>},
                         creator : {Undef}]}
     IN nodes \in {t \in [1..MaxCtxNodes ->
                             UNION {CtxNodeRows(id) : id \in 1..MaxCtxNodes}] :
                     \A id \in 1..MaxCtxNodes : t[id] \in CtxNodeRows(id)}
  /\ edges \in CtxEdgeTables(nodes)
  /\ logs = << >>
  /\ nextNodeId = Len(nodes) + 1
  /\ nextEdgeId = Len(edges) + 1
  /\ last = Result("init", TRUE, "none")
  /\ calls = [c \in Calls |-> IdleCall]
  /\ refs = [results |-> << >>, context |-> << >>, error |-> "none"]

\* graph traversal over a stored graph, one call at a time, in a window whose
\* session may end or change while the call runs; p_depth is an INT the
\* caller chooses
NextCtx ==
  \/ \E c \in Calls, u \in Users \cup {"anon"}, n \in 1..MaxCtxNodes, d \in 0..MaxDepth :
        NoneInFlight /\ getNodeContext(c, u, n, d)
  \/ \E c \in Calls : getNodeContextGetUser(c)
  \/ \E c \in Calls, failed \in BOOLEAN : getNodeContextRpc(c, failed)
  \/ \E c \in Calls : signOut(c)
  \/ \E c \in Calls, u \in Users : signInWithEmail(c, u)

SpecCtx == InitCtx /\ [][NextCtx]_vars

\* the notes the text search reads: of either owner, live or Deprecated, with
\* texts that resemble the query "ab" by title, by content or not at all
InitSearch ==
  /\ nodes \in
       LET rows == {CreateNodeRow(u, [title |-> t[1], content |-> t[2], type |-> Undef,
                                      status |-> <<st>>, creator |-> Undef]) :
                      u \in Users, st \in {"Active", "Deprecated"},
                      t \in {<<<<"a", "b">>, <<"x">>>>, <<<<"x">>, <<"a", "b", "c">>>>,
                             <<<<"x">>, <<"x">>>>}}
       IN UNION {[1..k -> rows] : k \in 0..MaxSearchNodes}
  /\ edges = << >>
  /\ logs = << >>
  /\ nextNodeId = Len(nodes) + 1
  /\ nextEdgeId = 1
  /\ last = Result("init", TRUE, "none")
  /\ calls = [c \in Calls |-> IdleCall]
  /\ refs = [results |-> << >>, context |-> << >>, error |-> "none"]

\* text search over stored notes: the handler, one call at a time, in a
\* window whose session may end or change while the call runs, and the rpc
\* sent with a match_count of the sender's choice
NextSearch ==
  \/ \E c \in Calls, u \in Users \cup {"anon"} :
        NoneInFlight /\ searchByText(c, u, <<"a", "b">>)
  \/ \E c \in Calls : searchByTextGetUser(c)
  \/ \E c \in Calls, failed \in BOOLEAN : searchByTextRpc(c, failed)
  \/ \E c \in Calls : signOut(c)
  \/ \E c \in Calls, u \in Users : signInWithEmail(c, u)
  \/ \E caller \in Users, u \in Users, k \in 1..MaxMatchCount :
        rpcSearchNodesByText(caller, <<"a", "b">>, u, k)

SpecSearch == InitSearch /\ [][NextSearch]_vars

\* the notes the vector search reads: of either owner, live or Deprecated,
\* without an embedding or with one of similarity 1.0 or 0.8 to the
\* query <<5, 0>>.  The embedding column is filled outside the handlers.
InitVector ==
  /\ nodes \in
       LET rows == {[CreateNodeRow(u, [title |-> <<"t">>, content |-> <<"a">>,
                                       type |-> Undef, status |-> <<st>>,
                                       creator |-> Undef])
                       EXCEPT !.embedding = emb] :
                      u \in Users, st \in {"Active", "Deprecated"},
                      emb \in {Undef, <<5, 0>>, <<4, 3>>, <<4, -3>>}}
       IN UNION {[1..k -> rows] : k \in 0..MaxSearchNodes}
  /\ edges = << >>
  /\ logs = << >>
  /\ nextNodeId = Len(nodes) + 1
  /\ nextEdgeId = 1
  /\ last = Result("init", TRUE, "none")
  /\ calls = [c \in Calls |-> IdleCall]
  /\ refs = [results |-> << >>, context |-> << >>, error |-> "none"]

\* vector search over stored notes: the handler of useSearch and the
\* find-similar edge function
NextVector ==
  \/ \E c \in Calls, u \in Users \cup {"anon"}, th \in {70, 80} :
        NoneInFlight /\ searchByEmbedding(c, u, <<5, 0>>, th)
  \/ \E c \in Calls : searchByEmbeddingGetUser(c)
  \/ \E c \in Calls, failed \in BOOLEAN : searchByEmbeddingRpc(c, failed)
  \/ \E c \in Calls : signOut(c)
  \/ \E c \in Calls, u \in Users : signInWithEmail(c, u)
  \/ \E caller \in Users, u \in Users, k \in 1..MaxMatchCount :
        findSimilar(caller, u, <<5, 0>>, k)

SpecVector == InitVector /\ [][NextVector]_vars

\* the stores graph-rag answers from: notes of either owner, live or
\* Deprecated, without an embedding, with the embedding of the question or
\* with one at a right angle to it, and at most one edge between them
RagNodeRows ==
  {[CreateNodeRow(u, [title |-> <<"t">>, content |-> <<"a">>, type |-> Undef,
                      status |-> <<st>>, creator |-> Undef])
      EXCEPT !.embedding = emb] :
     u \in Users, st \in {"Active", "Deprecated"},
     emb \in {Undef, <<5, 0>>, <<0, 5>>}}

RagEdgeRows ==
  {[CreateEdgeRow(u, input) EXCEPT !.status = st] :
     u \in Users, st \in {"Active", "Deprecated"},
     input \in [source_id : 1..MaxRagNodes, target_id : 1..MaxRagNodes,
                type : {<<"supports">>}, weight : {Undef}, creator : {Undef}]}

\* a store with more notes close to the question than the search may return
RagManyHits ==
  [i \in 1..MaxRagHits |->
     [CreateNodeRow("u1", [title |-> <<"t">>, content |-> <<"a">>, type |-> Undef,
                           status |-> Undef, creator |-> Undef])
        EXCEPT !.embedding = <<5, 0>>]]

InitRag ==
  /\ nodes \in UNION {[1..k -> RagNodeRows] : k \in 0..MaxRagNodes} \cup {RagManyHits}
  /\ edges \in {t \in UNION {[1..k -> RagEdgeRows] : k \in 0..MaxRagEdges} :
                  \A e \in DOMAIN t : EdgeWriteError(t, nodes, e, t[e]) = "none"}
  /\ logs = << >>
  /\ nextNodeId = Len(nodes) + 1
  /\ nextEdgeId = Len(edges) + 1
  /\ last = Result("init", TRUE, "none")
  /\ calls = [c \in Calls |-> IdleCall]
  /\ refs = [results |-> << >>, context |-> << >>, error |-> "none"]

\* questions put to a stored graph, one at a time; the store of many hits is
\* asked once
NextRag ==
  \/ \E c \in Calls, req \in RagRequests :
        /\ NoneInFlight /\ LogRoom(1, MaxRagLogs)
        /\ Len(nodes) > MaxRagNodes => last.op = "init"
        /\ graphRag(c, req)
  \/ \E c \in Calls, emb \in EmbeddingAnswers : embeddingAnswers(c, emb)
  \/ \E c \in Calls : graphRagSearch(c)
  \/ \E c \in Calls : graphRagContext(c)
  \/ \E c \in Calls, llm \in CompletionAnswers : completionAnswers(c, llm)
  \/ \E c \in Calls : graphRagLog(c)

SpecRag == InitRag /\ [][NextRag]_vars

\* one request to extract-graph or graph-rag on a store of at most one note
InitWait == InitRag /\ Len(nodes) <= 1

NextWait ==
  \/ /\ last.op = "init" /\ NoneInFlight
     /\ \E c \in Calls, req \in ExtractRequests : extractGraph(c, req)
  \/ \E c \in Calls :
        /\ calls[c].pc = "fetch"
        /\ \E output \in Unparsed \cup {Parsed(ex) : ex \in Extractions} :
              generateContentAnswers(c, output)
  \/ \E c \in Calls : extractGraphNode(c)
  \/ \E c \in Calls : extractGraphEdge(c)
  \/ \E c \in Calls : extractGraphLog(c)
  \/ /\ last.op = "init" /\ NoneInFlight
     /\ \E c \in Calls, req \in RagRequests : graphRag(c, req)
  \/ \E c \in Calls, emb \in EmbeddingAnswers : embeddingAnswers(c, emb)
  \/ \E c \in Calls : graphRagSearch(c)
  \/ \E c \in Calls : graphRagContext(c)
  \/ \E c \in Calls, llm \in CompletionAnswers : completionAnswers(c, llm)
  \/ \E c \in Calls : graphRagLog(c)

\* the database answers every request, and the runtime runs a handler
\* whenever it can go on; when, and whether, a capability answers is not up to
\* the program
SpecWait ==
  /\ InitWait /\ [][NextWait]_vars
  /\ WF_vars(\E c \in Calls : extractGraphNode(c))
  /\ WF_vars(\E c \in Calls : extractGraphEdge(c))
  /\ WF_vars(\E c \in Calls : extractGraphLog(c))
  /\ WF_vars(\E c \in Calls : graphRagSearch(c))
  /\ WF_vars(\E c \in Calls : graphRagContext(c))
  /\ WF_vars(\E c \in Calls : graphRagLog(c))

\* one link_suggest analysis of a batch of suggestions, for a store of one
\* or two notes of u1 with or without a link between them
SuggestionBatches == UNION {[1..n -> Suggestions] : n \in 0..MaxBatch}

InitSuggest ==
  /\ nodes \in {[i \in 1..k |-> CreateNodeRow("u1", [title |-> <<"t">>, content |-> <<"a">>,
                                   type |-> Undef, status |-> Undef, creator |-> Undef])] :
                  k \in 1..MaxNodes}
  /\ edges \in {t \in {<< >>,
                        <<CreateEdgeRow("u1", [source_id |-> 1, target_id |-> MaxNodes,
                                               type |-> <<"supports">>, weight |-> Undef,
                                               creator |-> Undef])>>} :
                  \A e \in DOMAIN t : EdgeWriteError(<< >>, nodes, e, t[e]) = "none"}
  /\ logs = << >>
  /\ nextNodeId = Len(nodes) + 1
  /\ nextEdgeId = Len(edges) + 1
  /\ last = Result("init", TRUE, "none")
  /\ calls = [c \in Calls |-> IdleCall]
  /\ refs = [results |-> << >>, context |-> << >>, error |-> "none"]

NextSuggest ==
  \/ /\ last.op = "init" /\ NoneInFlight
     /\ \E c \in Calls, u \in Users, n \in {Null, 1}, sgs \in SuggestionBatches :
           aiAnalyze(c, u, "link_suggest", n, sgs)
  \/ \E c \in Calls : aiAnalyzeInsert(c)

SpecSuggest == InitSuggest /\ [][NextSuggest]_vars

\* notes written, rewritten and extracted: contents of one word, of two words
\* two blanks apart, and of a blank alone
WordContents == {<<"a">>, <<"a", " ", " ", "b">>, <<" ">>}

WordNodeInputs ==
  [title : {<<"t">>}, content : WordContents, type : {Undef}, status : {Undef},
   creator : {Undef}]

WordUpdateInputs ==
  [id : NodeIds, title : Opt({<<"x">>}), content : Opt(WordContents),
   type : {Undef}, status : {Undef}]

NextWords ==
  \/ \E c \in Calls, u \in Users, input \in WordNodeInputs :
        /\ NoneInFlight /\ NodeRoom(1, MaxNodes) /\ LogRoom(1, MaxWordLogs)
        /\ createNode(c, u, input)
  \/ \E c \in Calls : createNodeInsert(c)
  \/ \E c \in Calls : logProvenance(c)
  \/ \E c \in Calls : logProvenanceInsert(c)
  \/ \E c \in Calls, u \in Users \cup {"anon"}, input \in WordUpdateInputs :
        /\ NoneInFlight /\ LogRoom(1, MaxWordLogs)
        /\ (input.id < nextNodeId \/ input.id > MaxNodes)
        /\ updateNode(c, "updateNode", u, input)
  \/ \E c \in Calls : updateNodeUpdate(c)
  \* an extraction request is sent by a client that holds the session of
  \* `caller`; the handler reads the body of the request only
  \/ \E c \in Calls, caller \in Users, u \in Users, cl \in Claims :
        /\ NoneInFlight /\ LogRoom(1, MaxWordLogs)
        /\ extractGraph(c, [caller |-> caller, content |-> <<cl.text>>, user_id |-> u])
  \/ \E c \in Calls, cl \in Claims :
        /\ NodeRoom(1, MaxNodes)
        /\ generateContentAnswers(c, Parsed([claims |-> <<cl>>, entities |-> << >>,
                                              relationships |-> << >>]))
  \/ \E c \in Calls : extractGraphNode(c)
  \/ \E c \in Calls : extractGraphLog(c)

SpecWords == Init /\ [][NextWords]_vars

\* calls of updateNode on one stored note that run at the same time: from two
\* windows of its owner, or two handlers of one window
InitConc ==
  LET row == CreateNodeRow("u1", [title |-> <<"t">>, content |-> <<"a">>, type |-> Undef,
                                  status |-> Undef, creator |-> Undef])
  IN /\ nodes = <<row>>
     /\ edges = << >>
     /\ logs = <<LogRow("u1", "create", "User", 1, Null, << >>, <<row>>, << >>)>>
     /\ nextNodeId = 2
     /\ nextEdgeId = 1
     /\ last = Result("init", TRUE, "none")
     /\ calls = [c \in Calls |-> IdleCall]
     /\ refs = [results |-> << >>, context |-> << >>, error |-> "none"]

NextConc ==
  \/ \E c \in Calls, u \in Users, input \in {i \in WordUpdateInputs : i.id = 1} :
        LogRoom(1, MaxConcLogs) /\ updateNode(c, "updateNode", u, input)
  \/ \E c \in Calls : updateNodeUpdate(c)
  \/ \E c \in Calls : logProvenance(c)
  \/ \E c \in Calls : logProvenanceInsert(c)

SpecConc == InitConc /\ [][NextConc]_vars

\* the notes of a hybrid search for "ab": six notes of u1 whose titles match
\* the query with six different ranks, and links between some of them
HybridTitles ==
  <<<<"a", "b", " ", "x">>, <<"a", "b">>, <<"a", "b", "c">>,
    <<"a", "b", " ", "x", " ", "y", " ", "z">>, <<"a", "b", " ", "x", "y">>,
    <<"a", "b", " ", "x", " ", "y">>>>

InitHybrid ==
  /\ nodes = [i \in DOMAIN HybridTitles |->
                CreateNodeRow("u1", [title |-> HybridTitles[i], content |-> <<"x">>,
                                     type |-> Undef, status |-> Undef, creator |-> Undef])]
  /\ edges \in {[i \in DOMAIN pairs |->
                   CreateEdgeRow("u1", [source_id |-> pairs[i][1],
                                        target_id |-> pairs[i][2], type |-> Undef,
                                        weight |-> Undef, creator |-> Undef])] :
                  pairs \in {<<<<1, 2>>>>, <<<<1, 2>>, <<3, 4>>>>}}
  /\ logs = << >>
  /\ nextNodeId = Len(nodes) + 1
  /\ nextEdgeId = Len(edges) + 1
  /\ last = Result("init", TRUE, "none")
  /\ calls = [c \in Calls |-> IdleCall]
  /\ refs = [results |-> << >>, context |-> << >>, error |-> "none"]

\* hybrid search in a window that has found no note before and whose session
\* may end while the call runs
NextHybrid ==
  \/ \E c \in Calls, u \in Users \cup {"anon"} :
        NoneInFlight /\ refs.results = << >> /\ hybridSearch(c, u, <<"a", "b">>)
  \/ \E c \in Calls : searchByTextGetUser(c)
  \/ \E c \in Calls, failed \in BOOLEAN : searchByTextRpc(c, failed)
  \/ \E c \in Calls, k \in 1..5 : hybridSearchGetUser(c, k)
  \/ \E c \in Calls, k \in 1..5, failed \in BOOLEAN : hybridSearchContext(c, k, failed)
  \/ \E c \in Calls : signOut(c)

SpecHybrid == InitHybrid /\ [][NextHybrid]_vars

\* ======================================================= governance claims
\* the log entries a step appends
NewLogs == {i \in DOMAIN logs' : i > Len(logs)}

\* call c returns in this step
Returns(c) == calls[c].pc # "idle" /\ calls'[c].pc = "idle"

\* C1: Deprecated is terminal: a node whose status is Deprecated never again
\* has status Active or Experimental, whatever approveNode, deprecateNode and
\* updateNode calls follow
C1_DeprecatedIsTerminal ==
  [][\A n \in DOMAIN nodes :
       (nodes[n].status = "Deprecated" /\ n \in DOMAIN nodes')
         => nodes'[n].status = "Deprecated"]_vars

\* C2: no operation leaves an Active node Experimental
C2_ActiveNeverExperimental ==
  [][\A n \in DOMAIN nodes :
       (nodes[n].status = "Active" /\ n \in DOMAIN nodes')
         => nodes'[n].status # "Experimental"]_vars

\* the status call c read with its select
StatusRead(c) == IF calls[c].before = Undef THEN "none" ELSE calls[c].before[1].status

\* the session of the window of call c is still the one the call began with
SessionLasts(c) == calls[c].session = calls[c].caller

\* C3: an approveNode call that read the caller's node as Experimental returns
\* true, leaves the node Active and appends an approve entry that targets it;
\* a deprecateNode call that read it as Active or Experimental leaves it
\* Deprecated and appends a deprecate entry; both unless the node is deleted
\* or the session of the caller ends while the call runs
C3_TransitionsSucceedAndLog ==
  [][\A c \in Calls :
       LET id == calls[c].id
       IN /\ (/\ calls[c].op = "approveNode" /\ Returns(c) /\ SessionLasts(c)
              /\ StatusRead(c) = "Experimental" /\ id \in DOMAIN nodes)
               => /\ last' = Result("approveNode", TRUE, "none")
                  /\ nodes'[id].status = "Active"
                  /\ \E i \in NewLogs : /\ logs'[i].action = "approve"
                                         /\ logs'[i].target_node_id = id
          /\ (/\ calls[c].op = "deprecateNode" /\ Returns(c) /\ SessionLasts(c)
              /\ StatusRead(c) \in {"Active", "Experimental"} /\ id \in DOMAIN nodes)
               => /\ last' = Result("deprecateNode", TRUE, "none")
                  /\ nodes'[id].status = "Deprecated"
                  /\ \E i \in NewLogs : /\ logs'[i].action = "deprecate"
                                         /\ logs'[i].target_node_id = id]_vars

\* an approveNode call has just turned an Experimental node Active and logged it
C3_Witness ==
  /\ last.op = "approveNode" /\ last.ok
  /\ Len(logs) >= 2
  /\ logs[Len(logs)].action = "approve"
  /\ logs[Len(logs) - 1].action = "update"
  /\ logs[Len(logs) - 1].before_state[1].status = "Experimental"
  /\ logs[Len(logs) - 1].after_state[1].status = "Active"
  /\ logs[Len(logs)].target_node_id \in DOMAIN nodes
  /\ nodes[logs[Len(logs)].target_node_id].status = "Active"

\* C4: a governance call that does not change the status (approve on an Active
\* node, deprecate on a Deprecated node) writes no provenance log entry: none
\* of its requests appends one
C4_NoLogWithoutChange ==
  [][\A c \in Calls :
       (/\ \/ calls[c].op = "approveNode" /\ StatusRead(c) = "Active"
           \/ calls[c].op = "deprecateNode" /\ StatusRead(c) = "Deprecated"
        /\ calls'[c] # calls[c])
         => logs' = logs]_vars
\* ============================================================= edge claims
\* the edges a step creates
NewEdges == DOMAIN edges' \ DOMAIN edges

\* an edge the store already holds for the triple of `row`
TripleTaken(row) ==
  \E e \in DOMAIN edges : /\ edges[e].source_id = row.source_id
                           /\ edges[e].target_id = row.target_id
                           /\ edges[e].type = row.type

\* createEdge is refused: the call ends with the answer of its insert, and
\* neither an edge nor a log entry is written
Refused(c) ==
  /\ last'.op = "createEdge" /\ ~last'.ok
  /\ edges' = edges /\ logs' = logs /\ calls'[c] = IdleCall

\* the suggestion call c inserts next
NextSuggestion(c) == calls[c].suggestions[calls[c].i]

\* the steps of C5: what a creation attempt with source = target changes
C5_Step ==
  /\ \A i \in NewLogs :
      /\ (logs'[i].target_edge_id # Null => logs'[i].target_edge_id \in DOMAIN edges')
      /\ (logs'[i].action = "extract_graph" =>
            \A k \in DOMAIN logs'[i].metadata[1].created_edge_ids :
              logs'[i].metadata[1].created_edge_ids[k] \in DOMAIN edges')
  /\ \A c \in Calls :
       (createEdgeInsert(c) /\ calls[c].input.source_id = calls[c].input.target_id)
         => Refused(c)
  /\ \A c \in Calls :
       (aiAnalyzeInsert(c) /\ NextSuggestion(c).source_id = NextSuggestion(c).target_id)
         => edges' = edges

\* C5: no edge ever has source_id = target_id, whichever of createEdge,
\* link_suggest and extraction created it; createEdge with source = target fails
\* and leaves edges and log as they were; the insert of a suggested self-loop
\* creates no edge; and every edge a new log entry names is a stored edge
C5_NoSelfLoop ==
  /\ [](\A e \in DOMAIN edges : edges[e].source_id # edges[e].target_id)
  /\ [][C5_Step]_vars

\* createEdge has just refused a self-loop between existing nodes, and the
\* store holds an edge an analysis created
C5_Witness ==
  /\ last.op = "createEdge" /\ ~last.ok /\ last.err = "check_violation"
  /\ nodes # << >>
  /\ \E e \in DOMAIN edges : edges[e].creator = "AI"

\* the steps of C6: which weights a creation attempt gets stored
C6_Step ==
  /\ \A c \in Calls :
       createEdgeInsert(c) =>
         LET input == calls[c].input
         IN /\ (input.weight \in {<<-1>>, <<101>>}) => Refused(c)
            /\ (/\ input.weight \in {<<0>>, <<100>>}
                /\ input.source_id # input.target_id
                /\ {input.source_id, input.target_id} \subseteq DOMAIN nodes
                /\ ~TripleTaken(CreateEdgeRow(calls[c].user, input))
                /\ calls[c].session = calls[c].user)
                 => /\ \E e \in NewEdges : edges'[e].weight = input.weight[1]
                    /\ calls'[c].pc = "log"
  /\ \A c \in Calls :
       (/\ createEdgeLog(c) /\ calls[c].id \in DOMAIN edges
        /\ calls[c].session = calls[c].user)
         => /\ last' = Result("createEdge", TRUE, "none")
            /\ \E i \in NewLogs : logs'[i].target_edge_id = calls[c].id
  /\ \A c \in Calls :
       (aiAnalyzeInsert(c) /\ NextSuggestion(c).weight \in {-1, 101}) => edges' = edges

\* C6: every edge's weight lies in [0.0, 1.0], whichever of createEdge,
\* link_suggest and extraction created it; createEdge of a caller whose
\* session lasts accepts 0.0 and 1.0, logs the edge and returns it, and rejects -0.01 and 1.01 without a row or a
\* log entry; the insert of a suggestion with a weight out of range creates no
\* edge
C6_WeightInRange ==
  /\ [](\A e \in DOMAIN edges : edges[e].weight >= 0 /\ edges[e].weight <= 100)
  /\ [][C6_Step]_vars

\* edges of weight 0.0 and of weight 1.0 are stored, one of them created by
\* createEdge and one by an analysis
C6_Witness ==
  /\ \E e \in DOMAIN edges : edges[e].weight = 0
  /\ \E e \in DOMAIN edges : edges[e].weight = 100
  /\ \E e \in DOMAIN edges : edges[e].creator = "User"
  /\ \E e \in DOMAIN edges : edges[e].creator = "AI"

\* the steps of C7: what a creation attempt leaves of the edges and the log
C7_Step ==
  /\ \A e \in DOMAIN edges : e \in DOMAIN edges' /\ edges'[e] = edges[e]
  /\ \A i \in DOMAIN logs : logs'[i] = logs[i]
  /\ \A c \in Calls :
       (/\ createEdgeInsert(c)
        /\ TripleTaken(CreateEdgeRow(calls[c].user, calls[c].input)))
         => /\ Refused(c)
            /\ (/\ calls[c].input.weight \in {Undef, <<0>>, <<100>>}
                /\ calls[c].session = calls[c].user)
                 => last'.err = "unique_violation"

\* C7: at most one edge per (owner, source, target, type), also while two
\* createEdge calls run at the same time; creating a second one with
\* createEdge fails with a unique violation and changes neither the edges nor
\* the log; no creation path changes or removes an existing edge or an
\* existing log entry
C7_UniqueTriple ==
  /\ [](\A e1, e2 \in DOMAIN edges :
          (/\ edges[e1].source_id = edges[e2].source_id
           /\ edges[e1].target_id = edges[e2].target_id
           /\ edges[e1].type = edges[e2].type) => e1 = e2)
  /\ [][C7_Step]_vars

\* createEdge has just been refused as a duplicate of an edge whose own
\* createEdge call has yet to write its log entry
C7_Witness ==
  /\ last.op = "createEdge" /\ ~last.ok /\ last.err = "unique_violation"
  /\ \E c \in Calls : CallAt(c, "createEdge", "log") /\ calls[c].id \in DOMAIN edges

\* another edge than `id` holds (source, target) of `id` with type `t`
TypeTaken(id, t) ==
  \E e \in DOMAIN edges : /\ e # id
                           /\ edges[e].source_id = edges[id].source_id
                           /\ edges[e].target_id = edges[id].target_id
                           /\ edges[e].type = t

\* the steps of C8: what updateEdgeType changes
C8_Step ==
  last'.op = "updateEdgeType" =>
    \A u \in Users, id \in EdgeIds, t \in EdgeTypes :
      updateEdgeType(u, id, t) =>
        /\ nodes' = nodes /\ logs' = logs
        /\ ~Visible(edges, u, id) => edges' = edges
        /\ (Visible(edges, u, id) /\ TypeTaken(id, t))
             => (~last'.ok /\ last'.err = "unique_violation" /\ edges' = edges)
        /\ (Visible(edges, u, id) /\ ~TypeTaken(id, t))
             => (last'.ok /\ edges' = [edges EXCEPT ![id].type = t])

\* C8: updateEdgeType to a type another edge already has for the same (source,
\* target) fails and leaves every edge as it was; no two edges ever share
\* (source, target, type); a permitted change alters the type of that edge only
C8_UpdateEdgeTypeKeepsUnique ==
  /\ [](\A e1, e2 \in DOMAIN edges :
          (/\ e1 # e2
           /\ edges[e1].source_id = edges[e2].source_id
           /\ edges[e1].target_id = edges[e2].target_id)
            => edges[e1].type # edges[e2].type)
  /\ [][C8_Step]_vars

\* updateEdgeType has just been refused: two edges join the same ordered pair
C8_Witness ==
  /\ last.op = "updateEdgeType" /\ ~last.ok /\ last.err = "unique_violation"
  /\ \E e1, e2 \in DOMAIN edges :
       /\ e1 # e2
       /\ edges[e1].source_id = edges[e2].source_id
       /\ edges[e1].target_id = edges[e2].target_id

\* a log entry but for its two target references
Untargeted(entry) == [entry EXCEPT !.target_node_id = Null, !.target_edge_id = Null]

\* the steps of C9: what deleteNode of a node of the caller changes
C9_Step ==
  /\ Len(logs') >= Len(logs)
  /\ last'.op = "deleteNode" =>
        \A u \in Users, id \in NodeIds :
          (deleteNode(u, id) /\ Visible(nodes, u, id)) =>
            /\ id \notin DOMAIN nodes'
            /\ \A e \in DOMAIN edges' :
                 edges'[e].source_id # id /\ edges'[e].target_id # id
            /\ \A e \in DOMAIN edges :
                 (edges[e].source_id # id /\ edges[e].target_id # id)
                   => (e \in DOMAIN edges' /\ edges'[e] = edges[e])
            /\ Len(logs') = Len(logs)
            /\ \A i \in DOMAIN logs :
                 /\ Untargeted(logs'[i]) = Untargeted(logs[i])
                 /\ logs'[i].target_node_id =
                      IF logs[i].target_node_id = id THEN Null ELSE logs[i].target_node_id
                 /\ logs'[i].target_edge_id =
                      IF logs[i].target_edge_id \in DOMAIN edges \ DOMAIN edges'
                        THEN Null ELSE logs[i].target_edge_id

\* C9: after deleteNode(n) of a node of the caller the node is gone, no edge has
\* n as source or target and the other edges are as before; every log entry
\* is still there, with its reference to n or to a cascaded edge nulled; no
\* edge ever names a node that is not stored and the log never gets shorter
C9_DeleteNodeCascades ==
  /\ [](\A e \in DOMAIN edges :
          edges[e].source_id \in DOMAIN nodes /\ edges[e].target_id \in DOMAIN nodes)
  /\ [][C9_Step]_vars

\* deleteNode has just removed a node with an edge: the edge's create entry
\* is still in the log, its reference nulled, its endpoint no longer stored
C9_Witness ==
  /\ last.op = "deleteNode"
  /\ \E i \in DOMAIN logs :
       /\ logs[i].action = "create"
       /\ logs[i].target_edge_id = Null
       /\ "source_id" \in DOMAIN logs[i].after_state[1]
       /\ \/ logs[i].after_state[1].source_id \notin DOMAIN nodes
          \/ logs[i].after_state[1].target_id \notin DOMAIN nodes

\* the steps of C10: what a step may change of the entries the log holds
C10_Step ==
  /\ Len(logs') >= Len(logs)
  /\ \A i \in DOMAIN logs :
       /\ Untargeted(logs'[i]) = Untargeted(logs[i])
       /\ \/ logs'[i].target_node_id = logs[i].target_node_id
          \/ /\ logs'[i].target_node_id = Null
             /\ logs[i].target_node_id \in DOMAIN nodes \ DOMAIN nodes'
       /\ \/ logs'[i].target_edge_id = logs[i].target_edge_id
          \/ /\ logs'[i].target_edge_id = Null
             /\ logs[i].target_edge_id \in DOMAIN edges \ DOMAIN edges'

\* C10: the provenance log is append-only: no step removes an entry or changes
\* its user, action, actor, before or after state or metadata; a target
\* reference changes only to null, in the step that deletes its target
C10_LogAppendOnly == [][C10_Step]_vars

\* the log holds create entries whose node and whose edge have been deleted
C10_Witness ==
  /\ \E i \in DOMAIN logs :
       /\ logs[i].action = "create" /\ logs[i].target_node_id = Null
       /\ logs[i].target_edge_id = Null
       /\ "word_count" \in DOMAIN logs[i].after_state[1]
  /\ \E i \in DOMAIN logs :
       /\ logs[i].action = "create" /\ logs[i].target_edge_id = Null
       /\ "source_id" \in DOMAIN logs[i].after_state[1]
\* ====================================================== atomicity claims
\* the node and edge rows a step creates, changes or removes
ChangedRows ==
  {<<"node", n>> : n \in {n \in DOMAIN nodes \cup DOMAIN nodes' :
       n \notin DOMAIN nodes \/ n \notin DOMAIN nodes' \/ nodes'[n] # nodes[n]}}
  \cup
  {<<"edge", e>> : e \in {e \in DOMAIN edges \cup DOMAIN edges' :
       e \notin DOMAIN edges \/ e \notin DOMAIN edges' \/ edges'[e] # edges[e]}}

\* C11: the primary write and its audit entry succeed or fail together: in
\* every reachable state, the states between two requests of a call included,
\* every node and every edge that createNode or createEdge stored has its
\* create entry in the log, and every link_suggest entry that counts
\* suggestions comes with a suggested edge of its owner
C11_WriteAndLogTogether ==
  /\ \A n \in DOMAIN nodes :
       nodes[n].method = "manual" =>
         \E i \in DOMAIN logs : logs[i].action = "create" /\ logs[i].target_node_id = n
  /\ \A e \in DOMAIN edges :
       edges[e].method = "manual" =>
         \E i \in DOMAIN logs : logs[i].action = "create" /\ logs[i].target_edge_id = e
  /\ \A i \in DOMAIN logs :
       (logs[i].action = "link_suggest" /\ logs[i].metadata[1].suggestions > 0) =>
         \E e \in DOMAIN edges : /\ edges[e].method = "link_suggest"
                                 /\ edges[e].user_id = logs[i].user_id

\* the entries call c has appended before its last request: the update entry
\* of an approveNode or deprecateNode call, the last of the log
Logged(c) ==
  IF /\ calls[c].op \in {"approveNode", "deprecateNode"}
     /\ calls[c].action # "update" /\ logs # << >>
     /\ logs[Len(logs)].action = "update"
     /\ logs[Len(logs)].before_state = calls[c].before
     /\ logs[Len(logs)].after_state = calls[c].after
    THEN 1 ELSE 0

\* the steps of C12: a call that returns with success has logged once
C12_Step ==
  \A c \in Calls :
    (/\ calls[c].op \in {"createNode", "updateNode", "approveNode", "deprecateNode"}
     /\ Returns(c) /\ last'.ok
     /\ calls[c].session = calls[c].user
     /\ calls[c].id \in DOMAIN nodes)
      => Logged(c) + Cardinality(NewLogs) = 1

\* C12: each successful createNode, updateNode and governance transition on a
\* node that is still stored when the call returns, by a caller whose session
\* lasts, has appended exactly one provenance log entry
C12_OneEntryPerMutation == [][C12_Step]_vars
\* ====================================================== traversal claims
\* the steps of C13: the rows a traversal from the node of the call returns
C13_Step ==
  \A c \in Calls :
    (getNodeContextRpc(c, FALSE) /\ calls[c].depth >= 1) =>
      \A r \in DOMAIN refs'.context : r.node_id # calls[c].nodeId

\* C13: get_node_context never returns its origin node, for every depth >= 1
\* and every stored graph, the 2-cycle A -> B, B -> A included: the rows an
\* answered get_node_context request of getNodeContext puts into
\* context.value never name the node the request asked for
C13_OriginExcluded == [][C13_Step]_vars

\* a traversal from a node on a live 2-cycle of the caller has answered with
\* the other node of the cycle in both directions and without the origin
C13_Witness ==
  /\ NoneInFlight /\ refs.error = "none"
  /\ \E e1, e2 \in DOMAIN edges :
       /\ edges[e1].source_id = edges[e2].target_id
       /\ edges[e1].target_id = edges[e2].source_id
       /\ edges[e1].user_id = edges[e2].user_id
       /\ \E r1, r2 \in DOMAIN refs.context :
            /\ r1.node_id = edges[e1].target_id /\ r1.direction = "outgoing"
            /\ r2.node_id = edges[e1].target_id /\ r2.direction = "incoming"
            /\ r1.depth = 1 /\ r2.depth = 1
       /\ \A r \in DOMAIN refs.context : r.node_id # edges[e1].source_id

\* the steps of C14: a traversal reports a node at one depth only
C14_Step ==
  \A c \in Calls :
    (getNodeContextRpc(c, FALSE) /\ calls[c].depth >= 1) =>
      \A r1, r2 \in DOMAIN refs'.context :
        r1.node_id = r2.node_id => r1.depth = r2.depth

\* C14: get_node_context never reports a node again at a greater depth than
\* the one it was first reached at
C14_NoRevisit == [][C14_Step]_vars

\* the live edges of owner u, as (from, to) in both directions
LiveSteps(u) ==
  UNION {{<<edges[e].source_id, edges[e].target_id>>,
          <<edges[e].target_id, edges[e].source_id>>} :
         e \in {e \in DOMAIN edges : /\ edges[e].user_id = u
                                      /\ edges[e].status # "Deprecated"}}

\* the nodes at the end of a walk of k live edges of u from n
RECURSIVE LiveReach(_, _, _)
LiveReach(n, u, k) ==
  IF k = 0 THEN {n}
  ELSE {st[2] : st \in {st \in LiveSteps(u) : st[1] \in LiveReach(n, u, k - 1)}}

\* the steps of C15: the nodes and edges behind the rows of a traversal
C15_Step ==
  \A c \in Calls :
    (getNodeContextRpc(c, FALSE) /\ calls[c].depth >= 1) =>
      LET u == calls[c].user
          n == calls[c].nodeId
      IN \A r \in DOMAIN refs'.context :
           /\ r.node_status # "Deprecated"
           /\ nodes[r.node_id].status # "Deprecated"
           /\ \E e \in DOMAIN edges :
                /\ edges[e].status # "Deprecated"
                /\ edges[e].user_id = u
                /\ edges[e].type = r.edge_type
                /\ \/ /\ r.direction = "outgoing"
                      /\ edges[e].target_id = r.node_id
                      /\ edges[e].source_id \in LiveReach(n, u, r.depth - 1)
                   \/ /\ r.direction = "incoming"
                      /\ edges[e].source_id = r.node_id
                      /\ edges[e].target_id \in LiveReach(n, u, r.depth - 1)

\* C15: no row an answered get_node_context request returns names a node that
\* is Deprecated in the store the request read, and every row of depth k is
\* the end of a walk of k edges from the origin none of which is Deprecated
C15_DeprecatedExcluded == [][C15_Step]_vars

\* a traversal answered with a row of depth 2 from a store in which a
\* Deprecated node hangs on a live edge of the caller and is not among the
\* rows
C15_Witness ==
  /\ NoneInFlight /\ refs.error = "none"
  /\ \E r \in DOMAIN refs.context : r.depth = 2
  /\ \E m \in DOMAIN nodes :
       /\ nodes[m].status = "Deprecated"
       /\ \A r \in DOMAIN refs.context : r.node_id # m
       /\ \E e \in DOMAIN edges :
            /\ edges[e].status = "Active" /\ edges[e].user_id = "u1"
            /\ m \in {edges[e].source_id, edges[e].target_id}

\* the live edges of u at n whose other end is a live node of u
LiveIncident(u, n) ==
  {e \in DOMAIN edges :
     /\ edges[e].user_id = u /\ edges[e].status # "Deprecated"
     /\ n \in {edges[e].source_id, edges[e].target_id}
     /\ LET m == IF edges[e].source_id = n THEN edges[e].target_id
                 ELSE edges[e].source_id
        IN nodes[m].user_id = u /\ nodes[m].status # "Deprecated"}

\* the row of depth 1 for edge e seen from n
EntryOf(e, n) ==
  LET m == IF edges[e].source_id = n THEN edges[e].target_id ELSE edges[e].source_id
  IN [node_id |-> m, node_title |-> nodes[m].title, node_type |-> nodes[m].type,
      node_status |-> nodes[m].status, edge_type |-> edges[e].type,
      edge_weight |-> edges[e].weight,
      direction |-> IF edges[e].source_id = n THEN "outgoing" ELSE "incoming",
      depth |-> 1]

\* the steps of C16: the rows of a traversal of depth 1
C16_Step ==
  \A c \in Calls :
    (getNodeContextRpc(c, FALSE) /\ calls[c].depth = 1) =>
      LET u == calls[c].user
          n == calls[c].nodeId
          seen == IF calls[c].session = u THEN LiveIncident(u, n) ELSE {}
      IN /\ DOMAIN refs'.context = {EntryOf(e, n) : e \in seen}
         /\ \A r \in DOMAIN refs'.context : refs'.context[r] = 1
         /\ Cardinality(DOMAIN refs'.context) = Cardinality(seen)

\* C16: get_node_context of depth 1, sent with the session of the owner,
\* returns exactly one row for each live edge of the owner at n whose other
\* end is a live node of the owner, with depth 1 and direction outgoing
\* exactly when n is the source of the edge; sent after the session of the
\* window has ended or changed, it returns no row
C16_DepthOneExact == [][C16_Step]_vars

\* node 1 is a Claim, node 2 an Evidence, the one edge is 2 -supports-> 1,
\* and a traversal, which by its one row was one from the Claim, answered
\* with exactly the Evidence, supports, incoming, depth 1
C16_Witness ==
  /\ NoneInFlight /\ refs.error = "none"
  /\ nodes[1].type = "Claim" /\ nodes[2].type = "Evidence"
  /\ Len(edges) = 1
  /\ edges[1].source_id = 2 /\ edges[1].target_id = 1
  /\ edges[1].type = "supports" /\ edges[1].status = "Active"
  /\ DOMAIN refs.context =
       {[node_id |-> 2, node_title |-> nodes[2].title, node_type |-> "Evidence",
         node_status |-> "Active", edge_type |-> "supports", edge_weight |-> 100,
         direction |-> "incoming", depth |-> 1]}
  /\ \A r \in DOMAIN refs.context : refs.context[r] = 1

\* ========================================================= search claims
\* the similarity of node n to a query embedding, in hundredths
SimilarityTo(n, q) == 100 - CosineDistance(nodes[n].embedding, q)

\* the nodes a vector search of these arguments is to return
Qualifying(a) ==
  {n \in DOMAIN nodes :
     /\ nodes[n].user_id = a.match_user_id
     /\ nodes[n].status # "Deprecated"
     /\ nodes[n].embedding # Undef
     /\ SimilarityTo(n, a.query) > a.match_threshold}

\* the ids a result lists
IdsOf(data) == {data[i].id : i \in DOMAIN data}

\* data lists exactly the nodes of `among`, each once, by descending
\* similarity to q, cut to the `count` most similar
VectorExact(data, among, q, count) ==
  /\ IdsOf(data) \subseteq among
  /\ \A i, j \in DOMAIN data : i # j => data[i].id # data[j].id
  /\ \A i \in DOMAIN data : data[i].similarity = SimilarityTo(data[i].id, q)
  /\ \A i, j \in DOMAIN data : i < j => data[i].similarity >= data[j].similarity
  /\ Len(data) = IF Cardinality(among) < count THEN Cardinality(among) ELSE count
  /\ \A n \in among \ IdsOf(data) :
       \A i \in DOMAIN data : SimilarityTo(n, q) <= data[i].similarity

\* the steps of C17: the rows of a vector search
C17_Step ==
  /\ \A c \in Calls :
       searchByEmbeddingRpc(c, FALSE) =>
         VectorExact(refs'.results,
                     IF calls[c].session = calls[c].user
                       THEN Qualifying([match_user_id |-> calls[c].user,
                                        query |-> calls[c].embedding,
                                        match_threshold |-> calls[c].threshold])
                       ELSE {},
                     calls[c].embedding, 10)
  /\ last'.op = "findSimilar" =>
       VectorExact(last'.data,
                   Qualifying(last'.args),
                   last'.args.query, last'.args.match_count)

\* C17: search_nodes_by_embedding, sent by searchByEmbedding with the session
\* of the owner or by find-similar, returns exactly the owner's non-Deprecated
\* nodes with an embedding whose similarity is strictly above the threshold,
\* by descending similarity, cut to the match_count most similar; a node of
\* similarity equal to the threshold or without an embedding is not returned
C17_VectorSearchExact == [][C17_Step]_vars

\* results.value holds the one note of similarity 1.0 while a live note of
\* its owner has similarity 0.8, which only a search with the threshold 0.8
\* leaves out, and find-similar with top_k 1 answered with the note of
\* similarity 1.0 and cut the note of similarity 0.8, which is above its
\* threshold of 0.5
C17_Witness ==
  /\ NoneInFlight /\ refs.error = "none"
  /\ Len(refs.results) = 1
  /\ refs.results[1].similarity = 100
  /\ \E n \in DOMAIN nodes :
       /\ nodes[n].user_id = nodes[refs.results[1].id].user_id
       /\ nodes[n].status = "Active"
       /\ nodes[n].embedding # Undef
       /\ SimilarityTo(n, <<5, 0>>) = 80
  /\ last.op = "findSimilar"
  /\ last.args.match_count = 1
  /\ Len(last.data) = 1
  /\ last.data[1].similarity = 100
  /\ \E n \in Qualifying(last.args) :
       SimilarityTo(n, last.args.query) = 80

\* the rows of data are live notes of owner u that `caller` owns, each
\* ranked by the greater of its title and content similarity to q, by
\* descending rank, and at most count of them
TextRanked(data, caller, u, q, count) ==
  /\ \A i \in DOMAIN data :
       LET n == nodes[data[i].id]
           st == Similarity(n.title, q)
           sc == Similarity(n.content, q)
       IN /\ n.user_id = u /\ n.user_id = caller
          /\ n.status # "Deprecated" /\ data[i].status # "Deprecated"
          /\ data[i].rank >= st /\ data[i].rank >= sc
          /\ data[i].rank \in {st, sc}
  /\ \A i, j \in DOMAIN data : i < j => data[i].rank >= data[j].rank
  /\ Len(data) <= count

\* the steps of C18: the rows of a text search
C18_Step ==
  /\ \A c \in Calls :
       searchByTextRpc(c, FALSE) =>
         TextRanked(refs'.results, calls[c].session, calls[c].user, calls[c].query, 20)
  /\ last'.op = "search_nodes_by_text" =>
       TextRanked(last'.data, last'.args.caller, last'.args.match_user_id,
                  last'.args.query, last'.args.match_count)

\* C18: search_nodes_by_text, sent by searchByText with match_count 20 or by
\* a client with a match_count of its choice, never returns a Deprecated node
\* or a node of another owner, ranks every result by the greater of its title
\* and content similarity, and returns at most match_count results by
\* descending rank
C18_TextSearchRanked == [][C18_Step]_vars

\* searchByText has put the two matching notes of its caller into
\* results.value, the note whose title is the query before the note that
\* matches by content with the lower rank, and the rpc sent with match_count
\* 1 answered with the first and cut the second
C18_Witness ==
  /\ NoneInFlight /\ refs.error = "none"
  /\ Len(refs.results) = 2
  /\ refs.results[1].rank = 1000 /\ refs.results[2].rank = 400
  /\ Similarity(nodes[refs.results[1].id].content, <<"a", "b">>) = 0
  /\ Similarity(nodes[refs.results[2].id].title, <<"a", "b">>) = 0
  /\ last.op = "search_nodes_by_text"
  /\ last.args.match_count = 1
  /\ last.args.match_user_id = nodes[refs.results[1].id].user_id
  /\ Len(last.data) = 1
  /\ last.data[1].id = refs.results[1].id

\* the steps of C19: the search_nodes_by_text request repeated with the same
\* arguments on the same store
C19_Step ==
  (/\ last.op = "search_nodes_by_text"
   /\ last'.op = "search_nodes_by_text"
   /\ last'.args = last.args
   /\ nodes' = nodes)
    => last'.data = last.data

\* C19: a search repeated with the same arguments on the same store returns
\* the same sequence, the same rows surviving the limit, also when results
\* have equal rank
C19_SearchDeterministic == [][C19_Step]_vars

\* ======================================================== tenancy claims
\* the steps of C20: whose rows a request to extract-graph writes
C20_Step ==
  \A c \in Calls :
    extractGraphNode(c) =>
      \A id \in DOMAIN nodes' \ DOMAIN nodes :
        nodes'[id].user_id = calls[c].request.caller

\* C20: no request writes across owner boundaries: every node an extraction
\* inserts is owned by the caller who sent the request
C20_OwnRowsOnly == [][C20_Step]_vars

\* ===================================================== extraction claims
\* C21: in every reachable state both endpoints of every edge are nodes owned
\* by the owner of the edge, whichever way the edge was created (createEdge,
\* link_suggest, extract-graph), so that a traversal of an owner's edges never
\* arrives at a node of another owner.
C21_EdgeEndpointsSameOwner ==
  \A e \in DOMAIN edges :
    /\ edges[e].source_id \in DOMAIN nodes
    /\ edges[e].target_id \in DOMAIN nodes
    /\ nodes[edges[e].source_id].user_id = edges[e].user_id
    /\ nodes[edges[e].target_id].user_id = edges[e].user_id

\* the nodes a step creates
NewNodes == DOMAIN nodes' \ DOMAIN nodes

\* C22: creator-conditional defaulting: a node or edge created through
\* createNode / createEdge whose provenance creator is AI has status
\* Experimental right after its creation (a caller cannot obtain Active status
\* on AI-authored content), and one whose creator is User is never Deprecated
\* at creation.
C22_Step ==
  /\ \A n \in NewNodes :
       /\ nodes'[n].creator = "AI" => nodes'[n].status = "Experimental"
       /\ nodes'[n].creator = "User" => nodes'[n].status \in {"Active", "Experimental"}
  /\ \A e \in NewEdges :
       /\ edges'[e].creator = "AI" => edges'[e].status = "Experimental"
       /\ edges'[e].creator = "User" => edges'[e].status = "Active"

C22_CreatorConditionalStatus == [][C22_Step]_vars

\* C23: every node and every edge an extraction commits has status
\* Experimental and provenance creator AI with method extract_graph, whatever
\* the request and the extraction hold: each insert of an extract-graph call
\* stores such a row, and the call lists no other row as created.
C23_Step ==
  /\ \A c \in Calls :
       (extractGraphNode(c) \/ extractGraphEdge(c)) =>
         /\ \A n \in NewNodes :
              /\ nodes'[n].status = "Experimental"
              /\ nodes'[n].creator = "AI"
              /\ nodes'[n].method = "extract_graph"
         /\ \A e \in NewEdges :
              /\ edges'[e].status = "Experimental"
              /\ edges'[e].creator = "AI"
              /\ edges'[e].method = "extract_graph"
  /\ (last' # last /\ last'.op = "extractGraph" /\ last'.ok) =>
       /\ \A k \in DOMAIN last'.data[1].node_ids :
            nodes'[last'.data[1].node_ids[k]].method = "extract_graph"
       /\ \A k \in DOMAIN last'.data[1].edge_ids :
            edges'[last'.data[1].edge_ids[k]].method = "extract_graph"

C23_ExtractionIsExperimental == [][C23_Step]_vars

\* an extraction has committed nodes and an edge
C23_Witness ==
  /\ last.op = "extractGraph" /\ last.ok
  /\ \E n \in DOMAIN nodes : nodes[n].method = "extract_graph"
  /\ \E e \in DOMAIN edges : edges[e].method = "extract_graph"
\* the step in which the one invocation of a behaviour answers
ExtractAnswers == last.op = "init" /\ last'.op = "extractGraph"

\* the rows the invocation has stored when it answers: the store it ran on
\* held no extracted row
ExtractedNodes == {n \in DOMAIN nodes' : nodes'[n].method = "extract_graph"}

ExtractedEdges == {e \in DOMAIN edges' : edges'[e].method = "extract_graph"}

\* the answer is a complete extraction and the request has a content
Complete(req, output) ==
  /\ req.content # Undef
  /\ output.text = "json"
  /\ output.claims # Undef /\ output.entities # Undef /\ output.relationships # Undef

\* the id of the first node the invocation stored
FirstExtracted == Cardinality(DOMAIN nodes' \ ExtractedNodes) + 1

\* the rows of the items of an extraction, claims first, in the order of their
\* indices
ItemRows(user, output) ==
  [i \in 1..Len(output.claims[1]) |-> ClaimRow(user, output.claims[1][i])]
    \o [i \in 1..Len(output.entities[1]) |-> EntityRow(user, output.entities[1][i])]

\* the item at `index` (from 0) exists and its insert is accepted
ItemCreated(rows, index) ==
  index + 1 \in DOMAIN rows /\ NodeWriteError(rows[index + 1]) = "none"

\* the id of the node created for the item at `index`: ids are handed out in
\* the order of the accepted inserts
NodeOfItem(first, rows, index) ==
  first + Cardinality({j \in 1..index : NodeWriteError(rows[j]) = "none"})

\* C24: an extraction creates an edge for a relationship only if both of its
\* indices name items whose nodes were created and the two differ, and the
\* edge connects the nodes created for exactly those two items, also when
\* earlier node inserts failed.
C24_Step ==
  (ExtractAnswers /\ last'.ok) =>
    LET output == last'.args.output
        rows == ItemRows(last'.args.request.user_id, output)
    IN \A e \in ExtractedEdges :
         \E k \in DOMAIN output.relationships[1] :
           LET rel == output.relationships[1][k]
           IN /\ ItemCreated(rows, rel.source_index)
              /\ ItemCreated(rows, rel.target_index)
              /\ rel.source_index # rel.target_index
              /\ edges'[e].source_id = NodeOfItem(FirstExtracted, rows, rel.source_index)
              /\ edges'[e].target_id = NodeOfItem(FirstExtracted, rows, rel.target_index)

C24_EdgesFollowIndices == [][C24_Step]_vars

\* the relationships of an extraction that name two different claims
BetweenClaims(output) ==
  {k \in DOMAIN output.relationships[1] :
     LET rel == output.relationships[1][k]
     IN /\ rel.source_index < Len(output.claims[1])
        /\ rel.target_index < Len(output.claims[1])
        /\ rel.source_index # rel.target_index}

\* C25: a relationship whose source or target index is out of range of the
\* claims list, or whose two indices are identical, is skipped without failing
\* the extraction: no edge is created for it.  An extraction of 3 claims and 2
\* relationships, one of them naming index 5, commits exactly 3 nodes and 1
\* edge, and the summary entry records 2 proposed relationships.
C25_Step ==
  (ExtractAnswers /\ Complete(last'.args.request, last'.args.output)) =>
    LET output == last'.args.output
        rels == output.relationships[1]
    IN /\ last'.ok
       /\ Cardinality(ExtractedEdges) <= Cardinality(BetweenClaims(output))
       /\ (/\ Len(output.claims[1]) = 3
           /\ \A i \in 1..3 : output.claims[1][i].type = "Claim"
           /\ output.entities[1] = << >>
           /\ Len(rels) = 2
           /\ Cardinality(BetweenClaims(output)) = 1
           /\ \E k \in 1..2 : rels[k].source_index = 5 \/ rels[k].target_index = 5)
          => /\ Cardinality(ExtractedNodes) = 3
             /\ Cardinality(ExtractedEdges) = 1
             /\ \E i \in NewLogs : /\ logs'[i].action = "extract_graph"
                                   /\ logs'[i].metadata[1].relationships = 2

C25_BadIndicesSkipped == [][C25_Step]_vars

\* the elements of a sequence
Range(seq) == {seq[i] : i \in DOMAIN seq}

\* C26: an extraction that reaches its commit writes exactly one summary log
\* entry (action extract_graph), with its last request and whatever inserts
\* failed; the entry lists
\* exactly the ids of the nodes and edges that were created and counts the
\* proposed claims, entities and relationships.
C26_Step ==
  (ExtractAnswers /\ Complete(last'.args.request, last'.args.output)) =>
    LET output == last'.args.output
    IN /\ Len(logs') = 1 /\ NewLogs = {1}
       /\ calls' = [c \in Calls |-> IdleCall]
       /\ \A i \in NewLogs :
            LET meta == logs'[i].metadata[1]
            IN /\ logs'[i].action = "extract_graph"
               /\ logs'[i].actor = "AI"
               /\ logs'[i].user_id = last'.args.request.user_id
               /\ Range(meta.created_node_ids) = ExtractedNodes
               /\ Len(meta.created_node_ids) = Cardinality(ExtractedNodes)
               /\ Range(meta.created_edge_ids) = ExtractedEdges
               /\ Len(meta.created_edge_ids) = Cardinality(ExtractedEdges)
               /\ meta.claims = Len(output.claims[1])
               /\ meta.entities = Len(output.entities[1])
               /\ meta.relationships = Len(output.relationships[1])

C26_OneSummaryEntry == [][C26_Step]_vars

\* an extraction with a rejected node insert and a rejected edge insert has
\* committed two nodes and an edge and logged them
C26_Witness ==
  /\ last.op = "extractGraph" /\ last.ok
  /\ Len(last.args.output.claims[1]) = 3
  /\ Len(last.args.output.relationships[1]) = 2
  /\ last.data[1].nodes_created = 2
  /\ last.data[1].edges_created = 1
  /\ \A k \in 1..2 : last.args.output.relationships[1][k].source_index = 0
                     /\ last.args.output.relationships[1][k].target_index = 1
  /\ Len(logs) = 1

\* C27: an invocation whose capability answer is missing, is not JSON or lacks
\* one of the lists claims, entities and relationships ends Failed: it answers
\* with an error and has created no node and no edge.
C27_Step ==
  (/\ ExtractAnswers
   /\ last'.args.request.content # Undef
   /\ ~Complete(last'.args.request, last'.args.output)) =>
    /\ ~last'.ok
    /\ ExtractedNodes = {}
    /\ ExtractedEdges = {}

C27_MalformedFailsClean == [][C27_Step]_vars

\* C28: a failed node or edge insert does not abort an extraction: every
\* other item is still inserted, and the invocation answers with a success
\* whose nodes_created and edges_created are the numbers of rows inserted.
C28_Step ==
  (ExtractAnswers /\ Complete(last'.args.request, last'.args.output)) =>
    LET output == last'.args.output
        user == last'.args.request.user_id
        rows == ItemRows(user, output)
    IN /\ last'.ok /\ last'.err = "none"
       /\ last'.data[1].nodes_created = Cardinality(ExtractedNodes)
       /\ last'.data[1].edges_created = Cardinality(ExtractedEdges)
       /\ Cardinality(ExtractedNodes)
            = Cardinality({i \in DOMAIN rows : NodeWriteError(rows[i]) = "none"})
       /\ \A i \in DOMAIN rows :
            NodeWriteError(rows[i]) = "none" => \E n \in ExtractedNodes : nodes'[n] = rows[i]
       /\ \A k \in DOMAIN output.relationships[1] :
            LET row == RelationshipRow(user, last'.data[1].node_ids,
                                       output.relationships[1][k])
            IN ~SkipRelationship(row) => \E e \in ExtractedEdges : edges'[e] = row

C28_FailuresDoNotAbort == [][C28_Step]_vars

\* the first claim of three was rejected and the second of two relationships
\* was rejected as a duplicate; the two later claims and the first
\* relationship were committed
C28_Witness ==
  /\ last.op = "extractGraph" /\ last.ok
  /\ Len(last.args.output.claims[1]) = 3
  /\ last.args.output.claims[1][1].type = "Warrant"
  /\ last.data[1].nodes_created = 2
  /\ Len(last.args.output.relationships[1]) = 2
  /\ last.args.output.relationships[1][1] = last.args.output.relationships[1][2]
  /\ last.data[1].edges_created = 1

\* ======================================================== GraphRAG claims
\* a graph-rag call answers in this step, after a request of its own
RagAnswers == \E c \in Calls : calls[c].op = "graphRag" /\ Returns(c)

\* C30: a GraphRAG question for which the vector search has no hit is not an
\* error: when both capabilities answer, the completion capability is asked
\* with an empty context bundle, the answer is returned with an empty list of
\* sources, and the query is logged with a source count of 0.
C30_Step ==
  (/\ RagAnswers
   /\ last'.args.embedding # Undef
   /\ last'.args.completion # Undef
   /\ Qualifying([match_user_id |-> last'.args.request.user_id,
                  query |-> last'.args.embedding[1], match_threshold |-> 40]) = {}) =>
    /\ last'.ok /\ last'.err = "none"
    /\ last'.asked = << << >> >>
    /\ last'.data[1].sources = << >>
    /\ last'.data[1].answer = last'.args.completion[1]
    /\ Cardinality(NewLogs) = 1
    /\ \A i \in NewLogs :
         /\ logs'[i].action = "summarize"
         /\ logs'[i].user_id = last'.args.request.user_id
         /\ logs'[i].metadata[1].source_count = 0
         /\ logs'[i].metadata[1].source_node_ids = << >>
    /\ UNCHANGED <<nodes, edges>>

C30_ZeroHitsStillAnswers == [][C30_Step]_vars

\* a question of u1 was answered from no source while the only note close to
\* the question belongs to u2
C30_Witness ==
  /\ last.op = "graphRag" /\ last.ok
  /\ last.args.request.user_id = "u1"
  /\ last.data[1].sources = << >>
  /\ last.data[1].answer = "answer"
  /\ \E n \in DOMAIN nodes : /\ nodes[n].user_id = "u2"
                             /\ nodes[n].status = "Active"
                             /\ nodes[n].embedding = <<5, 0>>
  /\ Len(logs) = 1

\* C29: every extraction request and every GraphRAG request that waits for a
\* capability eventually gets its response: the wait for an embedding or a
\* completion is bounded, so a capability that never answers leads to a
\* failure response and not to a handler that waits for ever.
C29_RequestsTerminate ==
  \A c \in Calls : (calls[c].pc # "idle") ~> (calls[c].pc = "idle")

\* C31: GraphRAG runs in sequence (embed, vector search, depth-1 context of
\* each hit, completion, log, response): every successful request has asked the
\* completion capability with the sources it returns, and writes exactly one
\* log entry (action summarize, actor AI) whose source node ids and source
\* count are those of the (node, context) pairs returned, at most 5 of them.
C31_Step ==
  (RagAnswers /\ last'.ok) =>
    LET req == last'.args.request
        sources == last'.data[1].sources
    IN /\ last'.args.embedding # Undef /\ last'.args.completion # Undef
       /\ last'.asked = <<sources>>
       /\ Len(sources) <= 5
       /\ \A j \in DOMAIN sources :
            /\ sources[j].node.id \in
                 Qualifying([match_user_id |-> req.user_id,
                             query |-> last'.args.embedding[1], match_threshold |-> 40])
            /\ sources[j].context =
                 ContextEntries(get_node_context(nodes, edges, sources[j].node.id,
                                                 req.user_id, 1))
       /\ Cardinality(NewLogs) = 1
       /\ \A i \in NewLogs :
            /\ logs'[i].action = "summarize" /\ logs'[i].actor = "AI"
            /\ logs'[i].user_id = req.user_id
            /\ logs'[i].metadata[1].source_node_ids =
                 [j \in DOMAIN sources |-> sources[j].node.id]
            /\ logs'[i].metadata[1].source_count = Len(sources)
       /\ UNCHANGED <<nodes, edges>>

C31_SequentialAndLogged == [][C31_Step]_vars

\* a question answered from 5 of 6 notes close to it, one of them with a
\* neighbour in its context, and logged with a source count of 5
C31_Witness ==
  /\ last.op = "graphRag" /\ last.ok
  /\ Len(nodes) = MaxRagHits
  /\ Len(last.data[1].sources) = 5
  /\ \E j \in DOMAIN last.data[1].sources : last.data[1].sources[j].context # {}
  /\ Len(logs) = 1
  /\ logs[1].action = "summarize"
  /\ logs[1].metadata[1].source_count = 5

\* C32: in GraphRAG a failure of the embedding or of the completion
\* capability (a provider error, or an answer with no vector or no text in
\* it) is surfaced as an error: the request is not answered with success and
\* an answer, and no summarize entry is written.
C32_Step ==
  (/\ RagAnswers
   /\ \/ last'.args.embedding = Undef
      \/ last'.args.completion = Undef
      \/ last'.args.completion = <<"">>) =>
    /\ ~last'.ok /\ last'.err # "none"
    /\ last'.data = Undef
    /\ NewLogs = {}
    /\ UNCHANGED <<nodes, edges>>

C32_CapabilityFailureSurfaced == [][C32_Step]_vars

\* ===================================================== link_suggest claims
\* the step in which the one analysis of a behaviour answers
AnalysisAnswers == last.op = "init" /\ last'.op = "aiAnalyze"

\* the edges the analysis has stored when it answers: the store it ran on held
\* manual edges only
SuggestedEdges == {e \in DOMAIN edges' : edges'[e].method = "link_suggest"}

\* suggestion k of a batch is one the store accepts: no self-loop, a weight in
\* range, both notes stored
ValidSuggestion(sg) ==
  /\ sg.source_id # sg.target_id
  /\ sg.weight >= 0 /\ sg.weight <= 100
  /\ {sg.source_id, sg.target_id} \subseteq DOMAIN nodes

\* two suggestions for the same (source, target, type)
SameTriple(a, b) ==
  a.source_id = b.source_id /\ a.target_id = b.target_id /\ a.type = b.type

\* an edge stored before the analysis holds the triple of sg
TakenBefore(sg) ==
  \E e \in DOMAIN edges : edges[e].method = "manual" /\ SameTriple(edges[e], sg)

\* suggestion k is the first valid one of its triple in the batch, and no
\* edge stored before the analysis holds the triple
FirstOfTriple(sgs, k) ==
  /\ ValidSuggestion(sgs[k])
  /\ ~TakenBefore(sgs[k])
  /\ \A j \in 1..(k - 1) : ~(ValidSuggestion(sgs[j]) /\ SameTriple(sgs[j], sgs[k]))

\* C33: link_suggest creates only Experimental edges of creator AI that keep
\* the self-loop, uniqueness and weight rules of manual creation; a rejected
\* suggestion (self-loop, weight out of range, missing note, duplicate) is
\* skipped, every other suggestion of the batch is still inserted, and the
\* request ends in success; no insert changes or removes a stored edge.
C33_Step ==
  /\ \A e \in DOMAIN edges : e \in DOMAIN edges' /\ edges'[e] = edges[e]
  /\ (AnalysisAnswers /\ last'.args.action = "link_suggest") =>
       LET sgs == last'.args.suggestions
       IN /\ last'.ok /\ last'.err = "none"
          /\ calls' = [c \in Calls |-> IdleCall]
          /\ \A e \in SuggestedEdges :
               /\ edges'[e].status = "Experimental" /\ edges'[e].creator = "AI"
               /\ edges'[e].user_id = last'.args.user_id
               /\ edges'[e].source_id # edges'[e].target_id
               /\ edges'[e].weight >= 0 /\ edges'[e].weight <= 100
               /\ \E k \in DOMAIN sgs : /\ FirstOfTriple(sgs, k)
                                        /\ SameTriple(edges'[e], sgs[k])
                                        /\ edges'[e].weight = sgs[k].weight
          /\ \A e1, e2 \in DOMAIN edges' : SameTriple(edges'[e1], edges'[e2]) => e1 = e2
          /\ \A k \in DOMAIN sgs :
               FirstOfTriple(sgs, k) =>
                 \E e \in SuggestedEdges : /\ SameTriple(edges'[e], sgs[k])
                                           /\ edges'[e].weight = sgs[k].weight
          /\ Cardinality(SuggestedEdges)
               = Cardinality({k \in DOMAIN sgs : FirstOfTriple(sgs, k)})

C33_SuggestionsSkippedNotFatal == [][C33_Step]_vars

\* a batch of three: a self-loop, then a link, then the same link again; the
\* one link is stored as an Experimental edge and the request succeeded
C33_Witness ==
  /\ last.op = "aiAnalyze" /\ last.ok
  /\ Len(last.args.suggestions) = 3
  /\ last.args.suggestions[1].source_id = last.args.suggestions[1].target_id
  /\ last.args.suggestions[2].source_id # last.args.suggestions[2].target_id
  /\ last.args.suggestions[2].weight = 100
  /\ last.args.suggestions[3] = last.args.suggestions[2]
  /\ Cardinality(DOMAIN edges) = 1
  /\ \A e \in DOMAIN edges : /\ edges[e].status = "Experimental"
                             /\ edges[e].source_id = last.args.suggestions[2].source_id

\* ======================================================= updateNode claims
\* C34: updateNode on an id that is not stored, or on a node of another owner
\* than the user of the session, fails with the same not-found error in both
\* cases, changes no node and writes no log entry: the call ends with the
\* answer of its update request.
C34_Step ==
  \A c \in Calls :
    (/\ calls[c].op = "updateNode" /\ updateNodeUpdate(c)
     /\ \/ calls[c].id \notin DOMAIN nodes
        \/ nodes[calls[c].id].user_id # calls[c].session) =>
      /\ last' = UpdateResult(calls[c], FALSE, "PGRST116")
      /\ calls'[c] = IdleCall
      /\ nodes' = nodes
      /\ logs' = logs

C34_UpdateNotFound == [][C34_Step]_vars

\* updateNode by another user than the owner of the stored node has just
\* failed, in a store whose log holds nothing but the node's creation
C34_Witness ==
  /\ last.op = "updateNode" /\ ~last.ok
  /\ last.args.id \in DOMAIN nodes
  /\ nodes[last.args.id].user_id # last.args.user
  /\ Len(logs) = 1 /\ logs[1].action = "create"
\* C35: word_count is derived from content: after any creations (by a user or
\* by an extraction) and updateNode calls every node's word_count is the number
\* of whitespace-separated words of its content, and an update that leaves the
\* content as it was leaves word_count as it was.
C35_WordCountDerived ==
  /\ [](\A n \in DOMAIN nodes : nodes[n].word_count = WordCount(nodes[n].content))
  /\ [][\A c \in Calls :
          updateNodeUpdate(c) =>
            \A n \in DOMAIN nodes :
              nodes'[n].content = nodes[n].content
                => nodes'[n].word_count = nodes[n].word_count]_vars

\* ================================================ traversal depth claims
\* C36: get_node_context ends on every stored graph, cycles included, for
\* every depth, and every row it returns has a depth between 1 and the
\* requested depth: the walk never goes further than depth edges from the
\* origin.
C36_Step ==
  \A c \in Calls :
    getNodeContextRpc(c, FALSE) =>
      \A r \in DOMAIN refs'.context : r.depth >= 1 /\ r.depth <= calls[c].depth

C36_DepthBounded == [][C36_Step]_vars

\* the nodes at the end of a walk of at most k live edges of u from n that
\* passes through no Deprecated node on its way
RECURSIVE CleanReach(_, _, _)
CleanReach(n, u, k) ==
  IF k = 0 THEN {n}
  ELSE LET before == CleanReach(n, u, k - 1)
           open == {m \in before : m = n \/ nodes[m].status # "Deprecated"}
       IN before \cup {st[2] : st \in {st \in LiveSteps(u) : st[1] \in open}}

\* C37: get_node_context of depth >= 2 does not pass through Deprecated
\* nodes: every node it returns is joined to the origin by a path of at most
\* depth live edges whose intermediate nodes are all not Deprecated.
C37_Step ==
  \A c \in Calls :
    (getNodeContextRpc(c, FALSE) /\ calls[c].depth >= 2) =>
      \A r \in DOMAIN refs'.context :
        r.node_id \in CleanReach(calls[c].nodeId, calls[c].user, calls[c].depth)

C37_NotThroughDeprecated == [][C37_Step]_vars

\* ================================================ concurrent update claims
\* the create and update entries of node 1, in the order of the log
HistoryOf(l) ==
  SelectSeq(l, LAMBDA x : x.target_node_id = 1 /\ x.action \in {"create", "update"})

\* C38: the update entries of updateNode are consistent under concurrent
\* updates of one node: the before_state of each entry is the state its update
\* was applied to, i.e. the after_state of the entry before it, so that the
\* entries replayed in order give the node's history; once every update is
\* logged the last after_state is the stored row.
C38_UpdateLogConsistent ==
  LET h == HistoryOf(logs)
  IN /\ \A i \in 2..Len(h) : h[i].before_state = h[i - 1].after_state
     /\ (\A c \in Calls : calls[c].pc \notin {"getUser", "log"})
          => h[Len(h)].after_state = <<nodes[1]>>

\* ================================================== hybrid search claims
\* the depth-1 context of node id as user sees it
OwnContext(user, id) ==
  get_node_context(Rls(nodes, user), Rls(edges, user), id, user, 1)

\* C39: hybridSearch attaches to each of the first 5 results of the text
\* search the depth-1 context of that result's own node, in whatever order
\* the five getNodeContext calls are answered; a result whose lookup failed
\* gets its own context or none, never the context of another node.
C39_OwnContextAttached ==
  /\ \A c \in Calls :
       CallAt(c, "hybridSearch", "context") =>
         /\ Len(calls[c].top) <= 5
         /\ \A k \in DOMAIN calls[c].top :
              calls[c].enriched[k] # Undef =>
                DOMAIN calls[c].enriched[k][1]
                  \in {DOMAIN OwnContext(calls[c].user, calls[c].top[k].id), {}}
  /\ last.op = "hybridSearch" =>
       \A k \in DOMAIN last.data :
         DOMAIN last.data[k].context
           \in {DOMAIN OwnContext(last.args.user, last.data[k].id), {}}
====
